---- MODULE Spec2Model ----
(***************************************************************************)
(* A model of terraform-provider-superset: the lifecycle handlers of its   *)
(* resources, the name resolver, the collection synchronizer (columns and  *)
(* metrics) and the folder tree reconciler, run against a remote Superset  *)
(* service.  One handler invocation is one behaviour: Init draws the       *)
(* request (plan, prior state) and the remote state, and every remote call *)
(* of the handler is one step.                                             *)
(***************************************************************************)
EXTENDS Integers, Sequences, FiniteSets, TLC

VARIABLES
    handler,    \* the handler that runs: [res, op]
    pc,         \* its position
    plan,       \* req.Plan (Create, Update) or req.Config
    prior,      \* req.State (Read, Update, Delete)
    remote,     \* what the remote service holds
    loc,        \* the handler's local variables
    calls,      \* the remote calls issued so far, in order
    diags,      \* resp.Diagnostics
    state       \* resp.State

vars == <<handler, pc, plan, prior, remote, loc, calls, diags, state>>

(***************************************************************************)
(* Bounds of the model.                                                    *)
(***************************************************************************)
MaxColumns == 2
MaxMetrics == 2
MaxFolders == 1
MaxChildren == 2
MaxRoles == 2
MaxGroups == 2
MaxPermissions == 2
MaxDeclared == 3

(***************************************************************************)
(* terraform-plugin-framework values (types.String, types.Int64): null,    *)
(* unknown or a value.  ValueString / ValueInt64 of null and unknown are   *)
(* the zero value.  Strings are kept as records so that the empty string,  *)
(* JSON text and plain text compare without mixing kinds.                  *)
(***************************************************************************)
Null == [k |-> "null"]
Unknown == [k |-> "unknown"]
Val(x) == [k |-> "value", v |-> x]
IsNull(a) == a.k = "null"
ValueString(a) == IF a.k = "value" THEN a.v ELSE ""
ValueInt64(a) == IF a.k = "value" THEN a.v ELSE 0

(***************************************************************************)
(* oapi-codegen nullable.Nullable: unspecified, explicit null or a value.  *)
(***************************************************************************)
NUnset == [n |-> "unset"]
NNull == [n |-> "null"]
NVal(x) == [n |-> "value", v |-> x]
NIsNull(a) == a.n = "null"
NIsSpecified(a) == a.n # "unset"
MustGet(a) == a.v

(***************************************************************************)
(* resp.State and resp.Diagnostics.                                        *)
(***************************************************************************)
StateAbsent == [k |-> "absent"]
StateOf(data) == [k |-> "value", v |-> data]
AddError(ds, summary, detail) == Append(ds, [sev |-> "error", summary |-> summary, detail |-> detail])
AddWarning(ds, summary, detail) == Append(ds, [sev |-> "warning", summary |-> summary, detail |-> detail])
HasError(ds) == \E i \in 1..Len(ds) : ds[i].sev = "error"

Orders(S) == {f \in [1..Cardinality(S) -> S] : \A i, j \in 1..Cardinality(S) : f[i] = f[j] => i = j}
MaxOf(S) == CHOOSE x \in S : \A y \in S : y <= x
MinOf(S) == CHOOSE x \in S : \A y \in S : x <= y
NameTable == <<"COL1", "COL2", "COL3", "COL4">>
MetricTable == <<"METRIC1", "METRIC2", "METRIC3", "METRIC4">>
ColumnNames == {NameTable[i] : i \in 1..MaxColumns}
MetricNames == {MetricTable[i] : i \in 1..MaxMetrics}
IndexOf(name) == CHOOSE i \in 1..4 : NameTable[i] = name \/ MetricTable[i] = name

(***************************************************************************)
(* The certification side channel: the JSON text of the extra field.       *)
(* The text is a record: [certification |-> [certified_by, details]].      *)
(***************************************************************************)
JsonCert(by, details) == [certification |-> [certified_by |-> by, details |-> details]]

toExtra(model) ==
    IF IsNull(model.CertifiedBy) /\ IsNull(model.CertificationDetails)
    THEN [text |-> "empty"]
    ELSE [text |-> "json",
          json |-> JsonCert(ValueString(model.CertifiedBy), ValueString(model.CertificationDetails))]

parseCertification(model, extra) ==
    IF ~NIsNull(extra) /\ MustGet(extra).text = "json"
    THEN LET c == MustGet(extra).json.certification
             m1 == IF c.certified_by # "" THEN [model EXCEPT !.CertifiedBy = Val(c.certified_by)] ELSE model
         IN  IF c.details # "" THEN [m1 EXCEPT !.CertificationDetails = Val(c.details)] ELSE m1
    ELSE model

(***************************************************************************)
(* Dataset columns: model_dataset_columns (resovleColumns, updateState).   *)
(***************************************************************************)
\* mapColumnNameToColumn: the last server column of a name wins
HasServerColumn(columns, name) == \E i \in 1..Len(columns) : columns[i].ColumnName = name
ServerColumn(columns, name) ==
    columns[MaxOf({i \in 1..Len(columns) : columns[i].ColumnName = name})]

resolveOneColumn(column, columns) ==
    LET columnName == ValueString(column.ColumnName) IN
    IF HasServerColumn(columns, columnName)
    THEN LET c == ServerColumn(columns, columnName) IN
         [column EXCEPT !.Id = Val(c.Id),
                        !.Type = IF ~NIsNull(c.Type) /\ MustGet(c.Type) # ""
                                 THEN Val(MustGet(c.Type)) ELSE @]
    ELSE column

\* the declared map is ranged over in the order `order` (Go map iteration)
resovleColumns(modelColumns, columns, order) ==
    [i \in 1..Len(order) |-> resolveOneColumn(modelColumns[order[i]], columns)]

columnUpdateState(d) ==
    parseCertification(
        [Id |-> Val(d.Id), ColumnName |-> Val(d.ColumnName),
         Type |-> IF NIsNull(d.Type) \/ MustGet(d.Type) = "" THEN Null ELSE Val(MustGet(d.Type)),
         CertifiedBy |-> Null, CertificationDetails |-> Null],
        d.Extra)

columnsUpdateState(d) ==
    [DatasetId |-> Val(d.Id), DatasetName |-> Val(d.TableName),
     Columns |-> [name \in {d.Columns[i].ColumnName : i \in 1..Len(d.Columns)} |->
                     columnUpdateState(ServerColumn(d.Columns, name))]]

(***************************************************************************)
(* The client wrapper's results: a value, a NotFoundError or another error *)
(* (transport failure, unexpected status).                                 *)
(***************************************************************************)
Ok(v) == [err |-> "none", v |-> v]
NotFoundError == [err |-> "notfound"]
OtherError == [err |-> "other"]
IsNotFound(r) == r.err = "notfound"
Failed(r) == r.err # "none"
Call(op, arg, r) == Append(calls, [op |-> op, arg |-> arg, res |-> r.err])
CallNet(op, arg, net, r) == Append(calls, [op |-> op, arg |-> arg, net |-> net, res |-> r.err])
CallsOf(op) == {i \in 1..Len(calls) : calls[i].op = op}

(***************************************************************************)
(* The dataset endpoints of the client wrapper.                            *)
(***************************************************************************)
FindDataset(name, fault) ==
    IF fault THEN OtherError
    ELSE IF remote.dataset.exists /\ remote.dataset.TableName = name
         THEN Ok([Id |-> remote.dataset.Id])
         ELSE NotFoundError

GetDataset(id, fault) ==
    IF fault THEN OtherError
    ELSE IF remote.dataset.exists /\ remote.dataset.Id = id
         THEN Ok(remote.dataset)
         ELSE NotFoundError

\* the service stores the put columns: a put column whose id is the id of a
\* stored column updates it, any other is stored under a new id
PutColumns(ds, cols) ==
    [i \in 1..Len(cols) |->
        [Id |-> IF \E j \in 1..Len(ds.Columns) : ds.Columns[j].Id = cols[i].Id
                THEN cols[i].Id ELSE 20 + i,
         ColumnName |-> cols[i].ColumnName,
         Type |-> cols[i].Type,
         Extra |-> IF NIsSpecified(cols[i].Extra) THEN cols[i].Extra ELSE NNull]]

PutMetrics(ds, metrics) ==
    [i \in 1..Len(metrics) |->
        [Id |-> IF \E j \in 1..Len(ds.Metrics) : ds.Metrics[j].Id = metrics[i].Id
                THEN metrics[i].Id ELSE 20 + i,
         MetricName |-> metrics[i].MetricName,
         Expression |-> metrics[i].Expression,
         Extra |-> IF NIsSpecified(metrics[i].Extra) THEN metrics[i].Extra ELSE NNull]]

PutAttributes(ds, put) ==
    [ds EXCEPT
        !.Description = IF NIsSpecified(put.Description) THEN put.Description ELSE @,
        !.CacheTimeout = IF NIsSpecified(put.CacheTimeout) THEN put.CacheTimeout ELSE @,
        !.FilterSelectEnabled = IF NIsSpecified(put.FilterSelectEnabled) THEN put.FilterSelectEnabled ELSE @,
        !.FetchValuesPredicate = IF NIsSpecified(put.FetchValuesPredicate) THEN put.FetchValuesPredicate ELSE @,
        !.Sql = IF NIsSpecified(put.Sql) THEN put.Sql ELSE @,
        !.NormalizeColumns = IF NIsSpecified(put.NormalizeColumns) THEN put.NormalizeColumns ELSE @,
        !.AlwaysFilterMainDttm = NVal(put.AlwaysFilterMainDttm),
        !.TableName = IF NIsSpecified(put.TableName) THEN MustGet(put.TableName) ELSE @,
        !.Database = IF \E i \in 1..Len(remote.databases) : remote.databases[i].Id = put.DatabaseId
                     THEN remote.databases[CHOOSE i \in 1..Len(remote.databases) :
                                               remote.databases[i].Id = put.DatabaseId]
                     ELSE @,
        !.Extra = IF NIsSpecified(put.Extra) THEN put.Extra ELSE @]

\* the folders of a put as JSON, which the service stores as they are sent: a
\* uuid is sent as its canonical text, a description only when it is set
RECURSIVE PutFolders(_)
PutFolders(folders) ==
    [i \in 1..Len(folders) |->
        [Name |-> folders[i].Name, Type |-> folders[i].Type,
         Description |-> folders[i].Description,
         Uuid |-> NVal(folders[i].Uuid.uuid),
         Children |-> IF folders[i].Children.n = "value"
                      THEN NVal(PutFolders(folders[i].Children.v))
                      ELSE folders[i].Children]]

ApplyPut(ds, put) ==
    IF "Folders" \in DOMAIN put THEN [ds EXCEPT !.Folders = NVal(PutFolders(put.Folders))]
    ELSE IF "Columns" \in DOMAIN put THEN [ds EXCEPT !.Columns = PutColumns(ds, put.Columns)]
    ELSE IF "Metrics" \in DOMAIN put THEN [ds EXCEPT !.Metrics = PutMetrics(ds, put.Metrics)]
    ELSE IF "Description" \in DOMAIN put THEN PutAttributes(ds, put)
    ELSE ds

UpdateDataset(id, put, fault) ==
    IF fault THEN OtherError
    ELSE IF remote.dataset.exists /\ remote.dataset.Id = id
         THEN Ok(ApplyPut(remote.dataset, put))
         ELSE NotFoundError

(***************************************************************************)
(* Dataset columns resource: Create and Update.                            *)
(***************************************************************************)
Running(res, op, at) == handler = [res |-> res, op |-> op] /\ pc = at

ColumnsCreateWire(column) ==
    [Id |-> ValueInt64(column.Id),
     ColumnName |-> ValueString(column.ColumnName),
     Type |-> NVal(ValueString(column.Type)),
     Extra |-> IF ~IsNull(column.CertifiedBy) \/ ValueString(column.CertifiedBy) # ""
               THEN NVal(toExtra(column)) ELSE NUnset]

\* stateColumnsMap[id].Type.ValueString(): the zero column when no prior
\* column has the id
StateColumnType(stateColumns, id) ==
    IF \E k \in DOMAIN stateColumns : ValueInt64(stateColumns[k].Id) = id
    THEN ValueString(stateColumns[CHOOSE k \in DOMAIN stateColumns :
                                     ValueInt64(stateColumns[k].Id) = id].Type)
    ELSE ""

ColumnsUpdateWire(column, stateColumns) ==
    [Id |-> ValueInt64(column.Id),
     ColumnName |-> ValueString(column.ColumnName),
     Type |-> NVal(StateColumnType(stateColumns, ValueInt64(column.Id))),
     Extra |-> IF ~IsNull(column.CertifiedBy) \/ ValueString(column.CertifiedBy) # ""
               THEN NVal(toExtra(column)) ELSE NUnset]

ColumnsCreateFindDataset ==
    /\ Running("dataset_columns", "Create", "start")
    /\ \E fault \in BOOLEAN :
         LET r == FindDataset(ValueString(plan.DatasetName), fault) IN
         /\ calls' = Call("FindDataset", ValueString(plan.DatasetName), r)
         /\ IF Failed(r)
            THEN /\ diags' = AddError(diags, "Client Error", "Unable to find dataset")
                 /\ pc' = "done"
                 /\ loc' = loc
            ELSE /\ diags' = diags
                 /\ pc' = "found"
                 /\ loc' = [_dataset |-> r.v]
    /\ UNCHANGED <<handler, plan, prior, remote, state>>

\* a failed GetDataset leaves dataset nil and the message reads dataset.Id
ColumnsCreateGetDataset ==
    /\ Running("dataset_columns", "Create", "found")
    /\ \E fault \in BOOLEAN :
         LET r == GetDataset(loc._dataset.Id, fault) IN
         /\ calls' = Call("GetDataset", loc._dataset.Id, r)
         /\ IF Failed(r)
            THEN pc' = "panic" /\ loc' = loc
            ELSE pc' = "got" /\ loc' = [dataset |-> r.v]
    /\ UNCHANGED <<handler, plan, prior, remote, diags, state>>

ColumnsCreateUpdateDataset ==
    /\ Running("dataset_columns", "Create", "got")
    /\ \E order \in Orders(DOMAIN plan.Columns), fault \in BOOLEAN :
         LET columns == resovleColumns(plan.Columns, loc.dataset.Columns, order)
             putData == [Columns |-> [i \in 1..Len(columns) |-> ColumnsCreateWire(columns[i])]]
             r == UpdateDataset(loc.dataset.Id, putData, fault)
         IN
         /\ calls' = Append(calls, [op |-> "UpdateDataset", arg |-> loc.dataset.Id,
                                    put |-> putData, res |-> r.err])
         /\ IF Failed(r)
            THEN /\ diags' = AddError(diags, "Client Error", "Unable to update dataset")
                 /\ UNCHANGED <<remote, state>>
            ELSE /\ remote' = [remote EXCEPT !.dataset = r.v]
                 /\ state' = StateOf(columnsUpdateState(r.v))
                 /\ diags' = diags
    /\ pc' = "done"
    /\ UNCHANGED <<handler, plan, prior, loc>>

ColumnsUpdateFindDataset ==
    /\ Running("dataset_columns", "Update", "start")
    /\ \E fault \in BOOLEAN :
         LET r == FindDataset(ValueString(plan.DatasetName), fault) IN
         /\ calls' = Call("FindDataset", ValueString(plan.DatasetName), r)
         /\ IF IsNotFound(r)
            THEN /\ state' = StateAbsent
                 /\ pc' = "done"
                 /\ UNCHANGED <<diags, loc>>
            ELSE IF Failed(r)
            THEN /\ diags' = AddError(diags, "Client Error", "Unable to find dataset")
                 /\ pc' = "done"
                 /\ UNCHANGED <<state, loc>>
            ELSE /\ pc' = "found"
                 /\ loc' = [_dataset |-> r.v]
                 /\ UNCHANGED <<diags, state>>
    /\ UNCHANGED <<handler, plan, prior, remote>>

ColumnsUpdateGetDataset ==
    /\ Running("dataset_columns", "Update", "found")
    /\ \E fault \in BOOLEAN :
         LET r == GetDataset(loc._dataset.Id, fault) IN
         /\ calls' = Call("GetDataset", loc._dataset.Id, r)
         /\ IF Failed(r)
            THEN pc' = "panic" /\ loc' = loc
            ELSE pc' = "got" /\ loc' = [dataset |-> r.v]
    /\ UNCHANGED <<handler, plan, prior, remote, diags, state>>

ColumnsUpdateUpdateDataset ==
    /\ Running("dataset_columns", "Update", "got")
    /\ \E order \in Orders(DOMAIN plan.Columns), fault \in BOOLEAN :
         LET resolvedColumns == resovleColumns(plan.Columns, loc.dataset.Columns, order)
             putData == [Columns |-> [i \in 1..Len(resolvedColumns) |->
                            ColumnsUpdateWire(resolvedColumns[i], prior.v.Columns)]]
             r == UpdateDataset(loc.dataset.Id, putData, fault)
         IN
         /\ calls' = Append(calls, [op |-> "UpdateDataset", arg |-> loc.dataset.Id,
                                    put |-> putData, res |-> r.err])
         /\ IF Failed(r)
            THEN /\ diags' = AddError(diags, "Client Error", "Unable to update dataset")
                 /\ UNCHANGED <<remote, state>>
            ELSE /\ remote' = [remote EXCEPT !.dataset = r.v]
                 /\ state' = StateOf(columnsUpdateState(r.v))
                 /\ diags' = diags
    /\ pc' = "done"
    /\ UNCHANGED <<handler, plan, prior, loc>>

(***************************************************************************)
(* The requests of the dataset columns resource.  id and type are computed *)
(* attributes: a plan carries the prior state's value (UseStateForUnknown, *)
(* UseNonNullStateForUnknown) or unknown; the prior state was written by   *)
(* updateState from an earlier response of the service, which may have     *)
(* changed since.                                                          *)
(***************************************************************************)
ServerColumnTypes == {NNull, NVal(""), NVal("INT")}
ServerColumnSets ==
    UNION {[S -> ServerColumnTypes] : S \in SUBSET ColumnNames}
ServerColumnsOf(f) ==
    LET idx == {IndexOf(n) : n \in DOMAIN f}
        nth(i) == CHOOSE k \in idx : Cardinality({j \in idx : j < k}) = i - 1
    IN  [i \in 1..Cardinality(idx) |->
            [Id |-> 10 + nth(i), ColumnName |-> NameTable[nth(i)],
             Type |-> f[NameTable[nth(i)]], Extra |-> NNull]]

Certifications == {[CertifiedBy |-> by, CertificationDetails |-> details] :
                      by \in {Null, Val("alice")}, details \in {Null, Val("reviewed")}}
ColumnConfigs ==
    UNION {[S -> Certifications] : S \in (SUBSET ColumnNames) \ {{}}}

PriorColumnOf(name, kind) ==
    [Id |-> Val(IF kind = "current" THEN 10 + IndexOf(name) ELSE 90 + IndexOf(name)),
     ColumnName |-> Val(name),
     Type |-> IF kind = "current" THEN Val("INT") ELSE Val("OLD"),
     CertifiedBy |-> Null, CertificationDetails |-> Null]
PriorColumnSets ==
    UNION {[S -> {"current", "stale"}] : S \in SUBSET ColumnNames}

PlanColumn(name, config, priorColumns) ==
    [Id |-> IF name \in DOMAIN priorColumns /\ ~IsNull(priorColumns[name].Id)
            THEN priorColumns[name].Id ELSE Unknown,
     ColumnName |-> Val(name),
     Type |-> IF name \in DOMAIN priorColumns THEN priorColumns[name].Type ELSE Unknown,
     CertifiedBy |-> config.CertifiedBy,
     CertificationDetails |-> config.CertificationDetails]

NoColumns == [n \in {} |-> Null]

InitColumns ==
    /\ pc = "start"
    /\ loc = [none |-> TRUE]
    /\ calls = <<>>
    /\ diags = <<>>
    /\ \E exists \in BOOLEAN, server \in ServerColumnSets :
         remote = [dataset |-> [exists |-> exists, Id |-> 5, TableName |-> "sales",
                                Columns |-> ServerColumnsOf(server), Metrics |-> <<>>]]
    /\ \E op \in {"Create", "Update"}, config \in ColumnConfigs, kinds \in PriorColumnSets :
         LET priorColumns == IF op = "Create" THEN NoColumns
                             ELSE [n \in DOMAIN kinds |-> PriorColumnOf(n, kinds[n])]
         IN
         /\ handler = [res |-> "dataset_columns", op |-> op]
         /\ op = "Create" => kinds = NoColumns
         /\ prior = IF op = "Create" THEN StateAbsent
                    ELSE StateOf([DatasetId |-> Val(5), DatasetName |-> Val("sales"),
                                  Columns |-> priorColumns])
         /\ plan = [DatasetName |-> Val("sales"),
                    Columns |-> [n \in DOMAIN config |-> PlanColumn(n, config[n], priorColumns)]]
         /\ state = prior

NextColumns ==
    \/ ColumnsCreateFindDataset
    \/ ColumnsCreateGetDataset
    \/ ColumnsCreateUpdateDataset
    \/ ColumnsUpdateFindDataset
    \/ ColumnsUpdateGetDataset
    \/ ColumnsUpdateUpdateDataset

SpecColumns == InitColumns /\ [][NextColumns]_vars

(***************************************************************************)
(* Dataset metrics resource: Create and Update.  The declared metrics are  *)
(* a map, ranged over in Go's map iteration order.                         *)
(***************************************************************************)
HasServerMetric(metrics, name) == \E i \in 1..Len(metrics) : metrics[i].MetricName = name
ServerMetric(metrics, name) ==
    metrics[MaxOf({i \in 1..Len(metrics) : metrics[i].MetricName = name})]

metricUpdateState(d) ==
    parseCertification(
        [Id |-> Val(d.Id), MetricName |-> Val(d.MetricName), Expression |-> Val(d.Expression),
         CertifiedBy |-> Null, CertificationDetails |-> Null],
        d.Extra)

metricsUpdateState(d) ==
    [DatasetId |-> Val(d.Id), DatasetName |-> Val(d.TableName),
     Metrics |-> [name \in {d.Metrics[i].MetricName : i \in 1..Len(d.Metrics)} |->
                     metricUpdateState(ServerMetric(d.Metrics, name))]]

MetricsWire(metric) ==
    [Id |-> ValueInt64(metric.Id),
     MetricName |-> ValueString(metric.MetricName),
     Expression |-> ValueString(metric.Expression),
     Extra |-> IF ~IsNull(metric.CertifiedBy) \/ ~IsNull(metric.CertificationDetails)
               THEN NVal(toExtra(metric)) ELSE NUnset]

MetricsCreateFindDataset ==
    /\ Running("dataset_metrics", "Create", "start")
    /\ \E fault \in BOOLEAN :
         LET r == FindDataset(ValueString(plan.DatasetName), fault) IN
         /\ calls' = Call("FindDataset", ValueString(plan.DatasetName), r)
         /\ IF Failed(r)
            THEN /\ diags' = AddError(diags, "Client Error", "Unable to find dataset")
                 /\ pc' = "done"
                 /\ loc' = loc
            ELSE /\ diags' = diags
                 /\ pc' = "found"
                 /\ loc' = [_dataset |-> r.v]
    /\ UNCHANGED <<handler, plan, prior, remote, state>>

MetricsCreateGetDataset ==
    /\ Running("dataset_metrics", "Create", "found")
    /\ \E fault \in BOOLEAN :
         LET r == GetDataset(loc._dataset.Id, fault) IN
         /\ calls' = Call("GetDataset", loc._dataset.Id, r)
         /\ IF Failed(r)
            THEN pc' = "panic" /\ loc' = loc
            ELSE pc' = "got" /\ loc' = [dataset |-> r.v]
    /\ UNCHANGED <<handler, plan, prior, remote, diags, state>>

MetricsCreateUpdateDataset ==
    /\ Running("dataset_metrics", "Create", "got")
    /\ \E order \in Orders(DOMAIN plan.Metrics), fault \in BOOLEAN :
         LET putData == [Metrics |-> [i \in 1..Len(order) |-> MetricsWire(plan.Metrics[order[i]])]]
             r == UpdateDataset(loc.dataset.Id, putData, fault)
         IN
         /\ calls' = Append(calls, [op |-> "UpdateDataset", arg |-> loc.dataset.Id,
                                    put |-> putData, res |-> r.err])
         /\ IF Failed(r)
            THEN /\ diags' = AddError(diags, "Client Error", "Unable to update dataset")
                 /\ UNCHANGED <<remote, state>>
            ELSE /\ remote' = [remote EXCEPT !.dataset = r.v]
                 /\ state' = StateOf(metricsUpdateState(r.v))
                 /\ diags' = diags
    /\ pc' = "done"
    /\ UNCHANGED <<handler, plan, prior, loc>>

MetricsUpdateFindDataset ==
    /\ Running("dataset_metrics", "Update", "start")
    /\ \E fault \in BOOLEAN :
         LET r == FindDataset(ValueString(plan.DatasetName), fault) IN
         /\ calls' = Call("FindDataset", ValueString(plan.DatasetName), r)
         /\ IF IsNotFound(r)
            THEN /\ state' = StateAbsent
                 /\ pc' = "done"
                 /\ UNCHANGED <<diags, loc>>
            ELSE IF Failed(r)
            THEN /\ diags' = AddError(diags, "Client Error", "Unable to find dataset")
                 /\ pc' = "done"
                 /\ UNCHANGED <<state, loc>>
            ELSE /\ pc' = "found"
                 /\ loc' = [_dataset |-> r.v]
                 /\ UNCHANGED <<diags, state>>
    /\ UNCHANGED <<handler, plan, prior, remote>>

MetricsUpdateGetDataset ==
    /\ Running("dataset_metrics", "Update", "found")
    /\ \E fault \in BOOLEAN :
         LET r == GetDataset(loc._dataset.Id, fault) IN
         /\ calls' = Call("GetDataset", loc._dataset.Id, r)
         /\ IF Failed(r)
            THEN pc' = "panic" /\ loc' = loc
            ELSE pc' = "got" /\ loc' = [dataset |-> r.v]
    /\ UNCHANGED <<handler, plan, prior, remote, diags, state>>

MetricsUpdateUpdateDataset ==
    /\ Running("dataset_metrics", "Update", "got")
    /\ \E order \in Orders(DOMAIN plan.Metrics), fault \in BOOLEAN :
         LET putData == [Metrics |-> [i \in 1..Len(order) |-> MetricsWire(plan.Metrics[order[i]])]]
             r == UpdateDataset(loc.dataset.Id, putData, fault)
         IN
         /\ calls' = Append(calls, [op |-> "UpdateDataset", arg |-> loc.dataset.Id,
                                    put |-> putData, res |-> r.err])
         /\ IF Failed(r)
            THEN /\ diags' = AddError(diags, "Client Error", "Unable to update dataset")
                 /\ UNCHANGED <<remote, state>>
            ELSE /\ remote' = [remote EXCEPT !.dataset = r.v]
                 /\ state' = StateOf(metricsUpdateState(r.v))
                 /\ diags' = diags
    /\ pc' = "done"
    /\ UNCHANGED <<handler, plan, prior, loc>>

ServerMetricsOf(S) ==
    LET idx == {IndexOf(n) : n \in S}
        nth(i) == CHOOSE k \in idx : Cardinality({j \in idx : j < k}) = i - 1
    IN  [i \in 1..Cardinality(idx) |->
            [Id |-> 10 + nth(i), MetricName |-> MetricTable[nth(i)],
             Expression |-> "SUM(x)", Extra |-> NNull]]

MetricConfigs ==
    UNION {[S -> Certifications] : S \in (SUBSET MetricNames) \ {{}}}

PriorMetricOf(name, kind) ==
    [Id |-> Val(IF kind = "current" THEN 10 + IndexOf(name) ELSE 90 + IndexOf(name)),
     MetricName |-> Val(name), Expression |-> Val("SUM(x)"),
     CertifiedBy |-> Null, CertificationDetails |-> Null]
PriorMetricSets ==
    UNION {[S -> {"current", "stale"}] : S \in SUBSET MetricNames}

PlanMetric(name, config, priorMetrics) ==
    [Id |-> IF name \in DOMAIN priorMetrics /\ ~IsNull(priorMetrics[name].Id)
            THEN priorMetrics[name].Id ELSE Unknown,
     MetricName |-> Val(name),
     Expression |-> Val("SUM(x)"),
     CertifiedBy |-> config.CertifiedBy,
     CertificationDetails |-> config.CertificationDetails]

InitMetrics ==
    /\ pc = "start"
    /\ loc = [none |-> TRUE]
    /\ calls = <<>>
    /\ diags = <<>>
    /\ \E exists \in BOOLEAN, server \in SUBSET MetricNames :
         remote = [dataset |-> [exists |-> exists, Id |-> 5, TableName |-> "sales",
                                Columns |-> <<>>, Metrics |-> ServerMetricsOf(server)]]
    /\ \E op \in {"Create", "Update"}, config \in MetricConfigs, kinds \in PriorMetricSets :
         LET priorMetrics == IF op = "Create" THEN NoColumns
                             ELSE [n \in DOMAIN kinds |-> PriorMetricOf(n, kinds[n])]
         IN
         /\ handler = [res |-> "dataset_metrics", op |-> op]
         /\ op = "Create" => kinds = NoColumns
         /\ prior = IF op = "Create" THEN StateAbsent
                    ELSE StateOf([DatasetId |-> Val(5), DatasetName |-> Val("sales"),
                                  Metrics |-> priorMetrics])
         /\ plan = [DatasetName |-> Val("sales"),
                    Metrics |-> [n \in DOMAIN config |-> PlanMetric(n, config[n], priorMetrics)]]
         /\ state = prior

NextMetrics ==
    \/ MetricsCreateFindDataset
    \/ MetricsCreateGetDataset
    \/ MetricsCreateUpdateDataset
    \/ MetricsUpdateFindDataset
    \/ MetricsUpdateGetDataset
    \/ MetricsUpdateUpdateDataset

SpecMetrics == InitMetrics /\ [][NextMetrics]_vars

(***************************************************************************)
(* google/uuid.  A UUID is [uuid |-> its canonical text]; String gives the *)
(* canonical text; Parse accepts the canonical text and its other accepted *)
(* spellings (upper case) and fails on anything else; New gives the        *)
(* n-th random UUID of the run.                                            *)
(***************************************************************************)
ZeroUuidText == "00000000-0000-0000-0000-000000000000"
FreshTable == <<"f1", "f2", "f3", "f4", "f5", "f6", "f7", "f8", "f9", "f10", "f11", "f12",
                "f13", "f14", "f15", "f16", "f17", "f18", "f19", "f20", "f21", "f22", "f23", "f24">>
CanonicalTexts ==
    {"u1", "u2", "u8", "u9", ZeroUuidText} \cup {FreshTable[n] : n \in DOMAIN FreshTable}
uuidString(u) == u.uuid
uuidParse(text) ==
    IF text \in CanonicalTexts THEN Ok([uuid |-> text])
    ELSE IF text = "U8" THEN Ok([uuid |-> "u8"])
    ELSE IF text = "U9" THEN Ok([uuid |-> "u9"])
    ELSE OtherError
uuidNew(n) == [uuid |-> FreshTable[n]]

(***************************************************************************)
(* Dataset folders: model_dataset_folder (resolveColumns, toFolders).      *)
(***************************************************************************)
findColumnByName(columns, name) ==
    IF \E i \in 1..Len(columns) : columns[i].ColumnName = name
    THEN Ok(columns[MinOf({i \in 1..Len(columns) : columns[i].ColumnName = name})])
    ELSE NotFoundError

findMetricByName(metrics, name) ==
    IF \E i \in 1..Len(metrics) : metrics[i].MetricName = name
    THEN Ok(metrics[MinOf({i \in 1..Len(metrics) : metrics[i].MetricName = name})])
    ELSE NotFoundError

childResolveKeepDeclared(child, d) ==
    IF ~IsNull(child.Uuid) /\ ValueString(child.Uuid) # "" THEN child
    ELSE IF ValueString(child.Type) = "column"
    THEN LET column == findColumnByName(d.Columns, ValueString(child.Name)) IN
         IF ~Failed(column) /\ NIsSpecified(column.v.Uuid)
         THEN [child EXCEPT !.Uuid = Val(uuidString(MustGet(column.v.Uuid)))]
         ELSE child
    ELSE child

childResolve(child, d) ==
    IF ValueString(child.Type) = "column"
    THEN LET column == findColumnByName(d.Columns, ValueString(child.Name)) IN
         IF ~Failed(column) /\ NIsSpecified(column.v.Uuid)
         THEN [child EXCEPT !.Uuid = Val(uuidString(MustGet(column.v.Uuid)))]
         ELSE child
    ELSE IF ValueString(child.Type) = "metric"
    THEN LET metric == findMetricByName(d.Metrics, ValueString(child.Name)) IN
         IF ~Failed(metric) /\ NIsSpecified(metric.v.Uuid)
         THEN [child EXCEPT !.Uuid = Val(uuidString(MustGet(metric.v.Uuid)))]
         ELSE child
    ELSE child

folderResolveColumns(model, d) ==
    [model EXCEPT !.Children = [i \in 1..Len(model.Children) |-> childResolve(model.Children[i], d)]]

resolveColumns(folders, d) ==
    [i \in 1..Len(folders) |->
        IF ValueString(folders[i].Type) = "folder"
        THEN folderResolveColumns(folders[i], d) ELSE folders[i]]

\* (variant) every wire node gets a new uuid
wireUuidAlwaysNew(uuid, n) == Ok(uuidNew(n))

\* the uuid of a wire node: a new one when the declared one is null, empty
\* or the nil UUID, the parsed declared one otherwise
wireUuid(uuid, n) ==
    IF IsNull(uuid) \/ ValueString(uuid) = "" \/ ValueString(uuid) = ZeroUuidText
    THEN Ok(uuidNew(n))
    ELSE uuidParse(ValueString(uuid))

wireDescription(description) ==
    IF ~IsNull(description) /\ ValueString(description) # ""
    THEN NVal(ValueString(description)) ELSE NUnset

\* datasetFolderModel.toFolders; the children draw the random UUIDs base+1..
folderToFolders(model, base) ==
    IF \E j \in 1..Len(model.Children) : Failed(wireUuid(model.Children[j].Uuid, base + j))
    THEN OtherError
    ELSE Ok([j \in 1..Len(model.Children) |->
                [Name |-> ValueString(model.Children[j].Name),
                 Type |-> ValueString(model.Children[j].Type),
                 Children |-> NVal(<<>>),
                 Uuid |-> wireUuid(model.Children[j].Uuid, base + j).v,
                 Description |-> wireDescription(model.Children[j].Description)]])

FreshBase(seed, i) == seed * MaxFolders * (MaxChildren + 1) + (i - 1) * (MaxChildren + 1)

\* (variant) a conversion that refuses a root folder of another type
toFoldersFolderRootsOnly(folders, seed) ==
    IF \E i \in 1..Len(folders) :
          \/ ValueString(folders[i].Type) # "folder"
          \/ Failed(wireUuid(folders[i].Uuid, FreshBase(seed, i) + 1))
          \/ Failed(folderToFolders(folders[i], FreshBase(seed, i) + 1))
    THEN OtherError
    ELSE Ok([i \in 1..Len(folders) |->
                [Name |-> ValueString(folders[i].Name),
                 Type |-> ValueString(folders[i].Type),
                 Children |-> NVal(folderToFolders(folders[i], FreshBase(seed, i) + 1).v),
                 Uuid |-> wireUuid(folders[i].Uuid, FreshBase(seed, i) + 1).v,
                 Description |-> wireDescription(folders[i].Description)]])

toFolders(folders, seed) ==
    IF \E i \in 1..Len(folders) :
          \/ Failed(wireUuid(folders[i].Uuid, FreshBase(seed, i) + 1))
          \/ Failed(folderToFolders(folders[i], FreshBase(seed, i) + 1))
    THEN OtherError
    ELSE Ok([i \in 1..Len(folders) |->
                [Name |-> ValueString(folders[i].Name),
                 Type |-> ValueString(folders[i].Type),
                 Children |-> NVal(folderToFolders(folders[i], FreshBase(seed, i) + 1).v),
                 Uuid |-> wireUuid(folders[i].Uuid, FreshBase(seed, i) + 1).v,
                 Description |-> wireDescription(folders[i].Description)]])

(***************************************************************************)
(* The folder reconciler run on a declared folder list and a fetched       *)
(* dataset: resolveColumns, then toFolders.  A matched column or metric    *)
(* whose uuid is an explicit null makes MustGet panic.                     *)
(***************************************************************************)
MatchOf(child, d) ==
    IF ValueString(child.Type) = "column" THEN findColumnByName(d.Columns, ValueString(child.Name))
    ELSE IF ValueString(child.Type) = "metric" THEN findMetricByName(d.Metrics, ValueString(child.Name))
    ELSE NotFoundError

resolveColumnsPanics(folders, d) ==
    \E i \in 1..Len(folders) :
        /\ ValueString(folders[i].Type) = "folder"
        /\ \E j \in 1..Len(folders[i].Children) :
              LET m == MatchOf(folders[i].Children[j], d) IN
              ~Failed(m) /\ NIsNull(m.v.Uuid)

ReconcileResolveColumns ==
    /\ Running("dataset_folder", "reconcile", "start")
    /\ IF resolveColumnsPanics(plan.Folders, loc.dataset)
       THEN pc' = "panic" /\ loc' = loc
       ELSE /\ pc' = "resolved"
            /\ loc' = [loc EXCEPT !.folders = resolveColumns(plan.Folders, loc.dataset)]
    /\ UNCHANGED <<handler, plan, prior, remote, calls, diags, state>>

ReconcileToFolders ==
    /\ Running("dataset_folder", "reconcile", "resolved")
    /\ \E seed \in {0, 1} :
         loc' = [loc EXCEPT !.wire = toFolders(loc.folders, seed)]
    /\ pc' = "converted"
    /\ UNCHANGED <<handler, plan, prior, remote, calls, diags, state>>

DeclaredUuids == {Null, Unknown, Val(ZeroUuidText), Val("U9"), Val("bad")}
ChildKinds == {<<"COL1", "column">>, <<"METRIC1", "metric">>, <<"COL1", "metric">>, <<"GHOST", "column">>}
DeclaredChildren(desc) ==
    {[Name |-> Val(k[1]), Type |-> Val(k[2]), Description |-> desc, Uuid |-> u] :
        k \in ChildKinds, u \in DeclaredUuids}
DeclaredChildLists(desc) ==
    UNION {[1..n -> DeclaredChildren(desc)] : n \in 1..MaxChildren}
DeclaredFolders(desc) ==
    {[Name |-> Val("test_folder"), Type |-> Val(t), Description |-> desc, Uuid |-> u, Children |-> c] :
        t \in {"folder", "column"}, u \in {Unknown, Val("U8")}, c \in DeclaredChildLists(desc)}
DeclaredFolderLists(desc) ==
    UNION {[1..n -> DeclaredFolders(desc)] : n \in 1..MaxFolders}

FetchedColumns ==
    {<<>>} \cup {<<[ColumnName |-> "COL1", Uuid |-> u]>> :
                    u \in {NUnset, NNull, NVal([uuid |-> ZeroUuidText]), NVal([uuid |-> "u1"])}}
FetchedMetrics ==
    {<<>>, <<[MetricName |-> "METRIC1", Uuid |-> NVal([uuid |-> "u2"])]>>}

InitReconcile ==
    /\ handler = [res |-> "dataset_folder", op |-> "reconcile"]
    /\ pc = "start"
    /\ calls = <<>>
    /\ diags = <<>>
    /\ prior = StateAbsent
    /\ state = StateAbsent
    /\ remote = [none |-> TRUE]
    /\ \E desc \in {Null, Val("d")} : \E folders \in DeclaredFolderLists(desc) :
         plan = [DatasetName |-> Val("sales"), Folders |-> folders]
    /\ \E columns \in FetchedColumns, metrics \in FetchedMetrics :
         loc = [dataset |-> [Id |-> 5, TableName |-> "sales", Columns |-> columns, Metrics |-> metrics],
                folders |-> <<>>, wire |-> OtherError]

NextReconcile ==
    \/ ReconcileResolveColumns
    \/ ReconcileToFolders

SpecReconcile == InitReconcile /\ [][NextReconcile]_vars

(***************************************************************************)
(* The security endpoints of the remote service, as the generated client   *)
(* sees them: a transport error, or a status code and a body.  `net` is    *)
(* what happens to the request: served, answered 404 or 500, or lost.      *)
(***************************************************************************)
RoleTable == <<"Admin", "Alpha", "Gamma", "Public">>
GroupTable == <<"analysts", "engineers", "finance", "ops">>
RoleNames == {RoleTable[i] : i \in 1..MaxRoles}
GroupNames == {GroupTable[i] : i \in 1..MaxGroups}
RoleOf(i) == [Id |-> 100 + i, Name |-> RoleTable[i]]
SortedSeq(idx) ==
    [i \in 1..Cardinality(idx) |-> CHOOSE k \in idx : Cardinality({j \in idx : j < k}) = i - 1]
RolesOf(idx) == [i \in 1..Cardinality(idx) |-> RoleOf(SortedSeq(idx)[i])]

HttpDown == [transport |-> "error"]
Http(status, body) == [transport |-> "ok", status |-> status, body |-> body]
Serve(net, status, body) ==
    IF net = "down" THEN HttpDown
    ELSE IF net = "500" THEN Http(500, <<>>)
    ELSE IF net = "404" THEN Http(404, <<>>)
    ELSE Http(status, body)
NetGet == {"ok", "500", "down"}
NetList == {"ok", "404", "500", "down"}

ServePk(items, pk, net) ==
    LET found == SelectSeq(items, LAMBDA e : e.Id = pk) IN
    IF Len(found) > 0 THEN Serve(net, 200, found[1]) ELSE Serve(net, 404, <<>>)

GetApiV1SecurityUsersPk(pk, net) == ServePk(remote.users, pk, net)
GetApiV1SecurityRolesPk(pk, net) == ServePk(remote.roles, pk, net)
GetApiV1SecurityGroupsPk(pk, net) == ServePk(remote.groups, pk, net)
GetApiV1SecurityUsers(userName, net) ==
    Serve(net, 200, SelectSeq(remote.users, LAMBDA e : e.Username = userName))
GetApiV1SecurityRoles(roleName, net) ==
    Serve(net, 200, SelectSeq(remote.roles, LAMBDA e : e.Name = roleName))
GetApiV1SecurityGroups(groupName, net) ==
    Serve(net, 200, SelectSeq(remote.groups, LAMBDA e : e.Name = groupName))
GetApiV1SecurityRolesRoleIdPermissions(roleId, net) ==
    IF \E i \in 1..Len(remote.roles) : remote.roles[i].Id = roleId
    THEN Serve(net, 200, remote.rolePermissions[roleId])
    ELSE Serve(net, 404, <<>>)

(***************************************************************************)
(* The client wrapper: lookups by id and by name.                          *)
(***************************************************************************)
GetUser(userID, net) ==
    LET res == GetApiV1SecurityUsersPk(userID, net) IN
    IF res.transport = "error" THEN OtherError
    ELSE IF res.status # 200 THEN OtherError
    ELSE IF res.status = 404 THEN NotFoundError
    ELSE Ok(res.body)

GetRole(roleID, net) ==
    LET res == GetApiV1SecurityRolesPk(roleID, net) IN
    IF res.transport = "error" THEN OtherError
    ELSE IF res.status = 404 THEN NotFoundError
    ELSE IF res.status # 200 THEN OtherError
    ELSE Ok(res.body)

GetGroupStatusFirst(groupID, net) ==
    LET res == GetApiV1SecurityGroupsPk(groupID, net) IN
    IF res.transport = "error" THEN OtherError
    ELSE IF res.status # 200 THEN OtherError
    ELSE IF res.status = 404 THEN NotFoundError
    ELSE Ok(res.body)

GetGroup(groupID, net) ==
    LET res == GetApiV1SecurityGroupsPk(groupID, net) IN
    IF res.transport = "error" THEN OtherError
    ELSE IF res.status = 404 THEN NotFoundError
    ELSE IF res.status # 200 THEN OtherError
    ELSE Ok(res.body)

FindUser(userName, net) ==
    LET res == GetApiV1SecurityUsers(userName, net) IN
    IF res.transport = "error" THEN OtherError
    ELSE IF res.status = 404 THEN NotFoundError
    ELSE IF res.status # 200 THEN OtherError
    ELSE IF Len(res.body) = 0 THEN NotFoundError
    ELSE Ok(res.body[1])

FindRole(roleName, net) ==
    LET res == GetApiV1SecurityRoles(roleName, net) IN
    IF res.transport = "error" THEN OtherError
    ELSE IF res.status = 404 THEN NotFoundError
    ELSE IF res.status # 200 THEN OtherError
    ELSE IF Len(res.body) = 0 THEN NotFoundError
    ELSE Ok(res.body[1])

FindGroup(groupName, net) ==
    LET res == GetApiV1SecurityGroups(groupName, net) IN
    IF res.transport = "error" THEN OtherError
    ELSE IF res.status = 404 THEN NotFoundError
    ELSE IF res.status # 200 THEN OtherError
    ELSE IF Len(res.body) = 0 THEN NotFoundError
    ELSE Ok(res.body[1])

ListRolePermissions(roleId, net) ==
    LET res == GetApiV1SecurityRolesRoleIdPermissions(roleId, net) IN
    IF res.transport = "error" THEN OtherError
    ELSE IF res.status = 404 THEN NotFoundError
    ELSE IF res.status # 200 THEN OtherError
    ELSE IF Len(res.body) = 0 THEN NotFoundError
    ELSE Ok(res.body)

(***************************************************************************)
(* The models of the security resources: updateState.                      *)
(***************************************************************************)
NamesOf(items) == [i \in 1..Len(items) |-> items[i].Name]

userUpdateState(u, password) ==
    [Id |-> Val(u.Id), Username |-> Val(u.Username),
     Active |-> IF NIsNull(u.Active) THEN Null ELSE Val(MustGet(u.Active)),
     Password |-> password,
     RoleNames |-> Val(NamesOf(u.Roles)),
     GroupNames |-> Val(NamesOf(u.Groups))]

roleUpdateState(r) == [Id |-> Val(r.Id), Name |-> Val(r.Name)]

groupUpdateState(g) ==
    [Id |-> Val(g.Id),
     Label |-> IF NIsNull(g.Label) THEN Null ELSE Val(MustGet(g.Label)),
     Name |-> Val(g.Name)]

groupRoleBindingUpdateState(group) ==
    [GroupId |-> Val(group.Id), GroupName |-> Val(group.Name), RoleNames |-> Val(NamesOf(group.Roles))]

flattenPermissionsToList(permissions) ==
    Val([i \in 1..Len(permissions) |->
            [permission_name |-> Val(permissions[i].PermissionName),
             view_menu_name |-> Val(permissions[i].ViewMenuName)]])

rolePermissionUpdateState(roleId, roleName, permissions) ==
    [RoleId |-> Val(roleId), RoleName |-> Val(roleName),
     Permissions |-> flattenPermissionsToList(permissions)]

(***************************************************************************)
(* Read of the security resources.                                         *)
(***************************************************************************)
UserRead ==
    /\ Running("user", "Read", "start")
    /\ \E net \in NetGet :
         LET r == GetUser(ValueInt64(prior.v.Id), net)
             password == IF ~IsNull(prior.v.Password) THEN Val(ValueString(prior.v.Password)) ELSE Null
         IN
         /\ calls' = CallNet("GetUser", ValueInt64(prior.v.Id), net, r)
         /\ IF IsNotFound(r)
            THEN state' = StateAbsent /\ diags' = diags
            ELSE IF Failed(r)
            THEN state' = state /\ diags' = AddError(diags, "Client Error", "Unable to read user")
            ELSE state' = StateOf(userUpdateState(r.v, password)) /\ diags' = diags
    /\ pc' = "done"
    /\ UNCHANGED <<handler, plan, prior, remote, loc>>

RoleRead ==
    /\ Running("role", "Read", "start")
    /\ \E net \in NetGet :
         LET r == GetRole(ValueInt64(prior.v.Id), net) IN
         /\ calls' = CallNet("GetRole", ValueInt64(prior.v.Id), net, r)
         /\ IF IsNotFound(r)
            THEN state' = StateAbsent /\ diags' = diags
            ELSE IF Failed(r)
            THEN state' = state /\ diags' = AddError(diags, "Client Error", "Unable to read role")
            ELSE state' = StateOf(roleUpdateState(r.v)) /\ diags' = diags
    /\ pc' = "done"
    /\ UNCHANGED <<handler, plan, prior, remote, loc>>

GroupRead ==
    /\ Running("group", "Read", "start")
    /\ \E net \in NetGet :
         LET r == GetGroup(ValueInt64(prior.v.Id), net) IN
         /\ calls' = CallNet("GetGroup", ValueInt64(prior.v.Id), net, r)
         /\ IF IsNotFound(r)
            THEN state' = StateAbsent /\ diags' = diags
            ELSE IF Failed(r)
            THEN state' = state /\ diags' = AddError(diags, "Client Error", "Unable to read group")
            ELSE state' = StateOf(groupUpdateState(r.v)) /\ diags' = diags
    /\ pc' = "done"
    /\ UNCHANGED <<handler, plan, prior, remote, loc>>

GroupRoleBindingRead ==
    /\ Running("group_role_binding", "Read", "start")
    /\ \E net \in NetList :
         LET group == FindGroup(ValueString(prior.v.GroupName), net) IN
         /\ calls' = CallNet("FindGroup", ValueString(prior.v.GroupName), net, group)
         /\ IF IsNotFound(group)
            THEN state' = StateAbsent /\ diags' = diags
            ELSE IF Failed(group)
            THEN state' = state /\ diags' = AddError(diags, "Client Error", "Unable to get group")
            ELSE state' = StateOf(groupRoleBindingUpdateState(group.v)) /\ diags' = diags
    /\ pc' = "done"
    /\ UNCHANGED <<handler, plan, prior, remote, loc>>

RolePermissionsReadFindRole ==
    /\ Running("role_permissions", "Read", "start")
    /\ \E net \in NetList :
         LET role == FindRole(ValueString(prior.v.RoleName), net) IN
         /\ calls' = CallNet("FindRole", ValueString(prior.v.RoleName), net, role)
         /\ IF IsNotFound(role)
            THEN state' = StateAbsent /\ diags' = diags /\ pc' = "done" /\ loc' = loc
            ELSE IF Failed(role)
            THEN /\ state' = state
                 /\ diags' = AddError(diags, "Client Error", "Unable to find role")
                 /\ pc' = "done" /\ loc' = loc
            ELSE state' = state /\ diags' = diags /\ pc' = "found" /\ loc' = [role |-> role.v]
    /\ UNCHANGED <<handler, plan, prior, remote>>

RolePermissionsReadListRolePermissions ==
    /\ Running("role_permissions", "Read", "found")
    /\ \E net \in NetGet :
         LET permissions == ListRolePermissions(loc.role.Id, net) IN
         /\ calls' = CallNet("ListRolePermissions", loc.role.Id, net, permissions)
         /\ IF Failed(permissions)
            THEN /\ state' = state
                 /\ diags' = AddError(diags, "Client Error", "Unable to list permissions for role")
            ELSE /\ state' = StateOf(rolePermissionUpdateState(loc.role.Id, loc.role.Name, permissions.v))
                 /\ diags' = diags
    /\ pc' = "done"
    /\ UNCHANGED <<handler, plan, prior, remote, loc>>

(***************************************************************************)
(* The states Read starts from: a prior state written by an earlier apply, *)
(* a remote service that may have changed since.                           *)
(***************************************************************************)
PermTable == <<<<"can_read", "Chart">>, <<"can_write", "Chart">>,
               <<"can_read", "Dashboard">>, <<"can_write", "Dashboard">>>>
PermissionOf(i) ==
    [Id |-> 400 + i, Permission |-> [Name |-> PermTable[i][1]], ViewMenu |-> [Name |-> PermTable[i][2]]]
RolePermissionOf(i) ==
    [Id |-> 400 + i, PermissionName |-> PermTable[i][1], ViewMenuName |-> PermTable[i][2]]
RolePermissionsOf(idx) == [i \in 1..Cardinality(idx) |-> RolePermissionOf(SortedSeq(idx)[i])]

GroupOf(i, label, roles) ==
    [Id |-> 200 + i, Name |-> GroupTable[i], Label |-> label, Roles |-> roles]
GroupsOf(idx, label, roles) ==
    [i \in 1..Cardinality(idx) |-> GroupOf(SortedSeq(idx)[i], label, roles)]
UserOf(active, roles, groups) ==
    [Id |-> 301, Username |-> "alice", Active |-> active, Roles |-> roles, Groups |-> groups]

RemoteSecurity ==
    {[roles |-> RolesOf(ridx),
      groups |-> GroupsOf(gidx, label, RolesOf(gr)),
      users |-> IF withUser THEN <<UserOf(active, RolesOf(gr), GroupsOf(gidx, label, <<>>))>> ELSE <<>>,
      rolePermissions |-> [id \in {100 + i : i \in ridx} |-> RolePermissionsOf(pidx)]] :
        ridx \in SUBSET (1..MaxRoles), gidx \in SUBSET (1..MaxGroups),
        gr \in SUBSET (1..MaxRoles), pidx \in SUBSET (1..MaxPermissions),
        label \in {NNull, NVal("team")}, active \in {NNull, NVal(TRUE)}, withUser \in BOOLEAN}

PriorOf(res) ==
    IF res = "user"
    THEN [Id |-> Val(301), Username |-> Val("alice"), Active |-> Val(TRUE), Password |-> Val("secret"),
          RoleNames |-> Val(<<"Admin">>), GroupNames |-> Val(<<>>)]
    ELSE IF res = "role" THEN [Id |-> Val(101), Name |-> Val("Admin")]
    ELSE IF res = "group" THEN [Id |-> Val(201), Label |-> Null, Name |-> Val("analysts")]
    ELSE IF res = "group_role_binding"
    THEN [GroupId |-> Val(201), GroupName |-> Val("analysts"), RoleNames |-> Val(<<"Admin">>)]
    ELSE [RoleId |-> Val(101), RoleName |-> Val("Admin"),
          Permissions |-> flattenPermissionsToList(<<RolePermissionOf(1)>>)]

InitRead ==
    /\ pc = "start"
    /\ loc = [none |-> TRUE]
    /\ calls = <<>>
    /\ diags = <<>>
    /\ plan = [none |-> TRUE]
    /\ remote \in RemoteSecurity
    /\ \E res \in {"user", "role", "group", "group_role_binding", "role_permissions"} :
         /\ handler = [res |-> res, op |-> "Read"]
         /\ prior = StateOf(PriorOf(res))
    /\ state = prior

NextRead ==
    \/ UserRead
    \/ RoleRead
    \/ GroupRead
    \/ GroupRoleBindingRead
    \/ RolePermissionsReadFindRole
    \/ RolePermissionsReadListRolePermissions

SpecRead == InitRead /\ [][NextRead]_vars

(***************************************************************************)
(* Name resolution: declared names against a listed remote collection.     *)
(* A Go map built from the source keeps, for a key, the id of the last     *)
(* entity with that key.                                                   *)
(***************************************************************************)
Elements(a) == IF a.k = "value" THEN a.v ELSE <<>>
RoleKey(r) == r.Name
GroupKey(g) == g.Name
PermissionKey(p) == p.Permission.Name \o "_" \o p.ViewMenu.Name
HasKey(source, Key(_), k) == \E i \in 1..Len(source) : Key(source[i]) = k
IdOfKey(source, Key(_), k) ==
    source[MaxOf({i \in 1..Len(source) : Key(source[i]) = k})].Id
Resolved(ids, notFound) == [panic |-> FALSE, ids |-> ids, notFound |-> notFound]
Panicked == [panic |-> TRUE, ids |-> <<>>, notFound |-> <<>>]

resolveGroupIDsFromNames(model, sourceGroups) ==
    IF IsNull(model.GroupNames) THEN Resolved(<<>>, <<>>)
    ELSE LET groupNamesList == Elements(model.GroupNames)
             found == SelectSeq(groupNamesList, LAMBDA g : HasKey(sourceGroups, GroupKey, ValueString(g)))
             missing == SelectSeq(groupNamesList, LAMBDA g : ~HasKey(sourceGroups, GroupKey, ValueString(g)))
         IN Resolved([i \in 1..Len(found) |-> IdOfKey(sourceGroups, GroupKey, ValueString(found[i]))],
                     [i \in 1..Len(missing) |-> ValueString(missing[i])])

resolveRoleIDsFromNamesSourceOrder(model, sourceRoles) ==
    IF IsNull(model.RoleNames) THEN Resolved(<<>>, <<>>)
    ELSE LET roleNamesList == Elements(model.RoleNames)
             declared == {ValueString(roleNamesList[i]) : i \in 1..Len(roleNamesList)}
             found == SelectSeq(sourceRoles, LAMBDA r : r.Name \in declared)
             missing == SelectSeq(roleNamesList, LAMBDA r : ~HasKey(sourceRoles, RoleKey, ValueString(r)))
         IN Resolved([i \in 1..Len(found) |-> found[i].Id],
                     [i \in 1..Len(missing) |-> ValueString(missing[i])])

resolveRoleIDsFromNames(model, sourceRoles) ==
    IF IsNull(model.RoleNames) THEN Resolved(<<>>, <<>>)
    ELSE LET roleNamesList == Elements(model.RoleNames)
             found == SelectSeq(roleNamesList, LAMBDA r : HasKey(sourceRoles, RoleKey, ValueString(r)))
             missing == SelectSeq(roleNamesList, LAMBDA r : ~HasKey(sourceRoles, RoleKey, ValueString(r)))
         IN Resolved([i \in 1..Len(found) |-> IdOfKey(sourceRoles, RoleKey, ValueString(found[i]))],
                     [i \in 1..Len(missing) |-> ValueString(missing[i])])

resolveRoleIdsFirstMissing(model, sourceRoles) ==
    IF IsNull(model.RoleNames) THEN Resolved(<<>>, <<>>)
    ELSE LET roleNamesList == Elements(model.RoleNames)
             found == SelectSeq(roleNamesList, LAMBDA p : HasKey(sourceRoles, RoleKey, ValueString(p)))
             missing == SelectSeq(roleNamesList, LAMBDA p : ~HasKey(sourceRoles, RoleKey, ValueString(p)))
         IN IF \E i \in 1..Len(roleNamesList) : IsNull(roleNamesList[i]) THEN Panicked
            ELSE Resolved([i \in 1..Len(found) |-> IdOfKey(sourceRoles, RoleKey, ValueString(found[i]))],
                          [i \in 1..MinOf({1, Len(missing)}) |-> ValueString(missing[i])])

resolveRoleIds(model, sourceRoles) ==
    IF IsNull(model.RoleNames) THEN Resolved(<<>>, <<>>)
    ELSE LET roleNamesList == Elements(model.RoleNames)
             found == SelectSeq(roleNamesList, LAMBDA p : HasKey(sourceRoles, RoleKey, ValueString(p)))
             missing == SelectSeq(roleNamesList, LAMBDA p : ~HasKey(sourceRoles, RoleKey, ValueString(p)))
         IN IF \E i \in 1..Len(roleNamesList) : IsNull(roleNamesList[i]) THEN Panicked
            ELSE Resolved([i \in 1..Len(found) |-> IdOfKey(sourceRoles, RoleKey, ValueString(found[i]))],
                          [i \in 1..Len(missing) |-> ValueString(missing[i])])

\* the key of a declared permission object: permission_name + "_" + view_menu_name
fullPermissionName(p) == ValueString(p.v.permission_name) \o "_" \o ValueString(p.v.view_menu_name)
PermissionObjectPanics(p) ==
    IsNull(p) \/ IsNull(p.v.permission_name) \/ IsNull(p.v.view_menu_name)

resolvePermissions(model, sourcePermissions) ==
    IF IsNull(model.Permissions) THEN Resolved(<<>>, <<>>)
    ELSE LET permissionList == Elements(model.Permissions)
             found == SelectSeq(permissionList,
                                LAMBDA p : HasKey(sourcePermissions, PermissionKey, fullPermissionName(p)))
             missing == SelectSeq(permissionList,
                                  LAMBDA p : ~HasKey(sourcePermissions, PermissionKey, fullPermissionName(p)))
         IN IF \E i \in 1..Len(permissionList) : PermissionObjectPanics(permissionList[i]) THEN Panicked
            ELSE Resolved([i \in 1..Len(found) |->
                              [Id |-> IdOfKey(sourcePermissions, PermissionKey, fullPermissionName(found[i])),
                               PermissionName |-> ValueString(found[i].v.permission_name),
                               ViewMenuName |-> ValueString(found[i].v.view_menu_name)]],
                          [i \in 1..Len(missing) |-> fullPermissionName(missing[i])])

(***************************************************************************)
(* The resolvers on their own: declared names and listed collections drawn *)
(* from bounded sets.                                                      *)
(***************************************************************************)
SeqsUpTo(S, n) == UNION {[1..k -> S] : k \in 0..n}
InjectiveSeqsUpTo(S, n) == {f \in SeqsUpTo(S, n) : \A i, j \in DOMAIN f : f[i] = f[j] => i = j}
ValuesOf(names) == [i \in 1..Len(names) |-> Val(names[i])]
ListedIn(order, Of(_)) == [i \in 1..Len(order) |-> Of(order[i])]

DeclaredRoleNames == RoleNames \cup {"Ghost", "Phantom"}
DeclaredGroupNames == GroupNames \cup {"nobody", "nowhere"}
DeclaredNameSets(names) ==
    {Null, Unknown} \cup {Val(ValuesOf(f)) : f \in InjectiveSeqsUpTo(names, MaxDeclared)}
                    \cup {Val(<<Val(CHOOSE n \in names : TRUE), Null>>)}
SourceRoles == UNION {{ListedIn(o, RoleOf) : o \in Orders(idx)} : idx \in SUBSET (1..MaxRoles)}
SourceGroupOf(i) == GroupOf(i, NNull, <<>>)
SourceGroups == UNION {{ListedIn(o, SourceGroupOf) : o \in Orders(idx)} : idx \in SUBSET (1..MaxGroups)}

\* "can" + "_" + "x_y" and "can_x" + "_" + "y" are the same key
ClashPermission == [Id |-> 490, Permission |-> [Name |-> "can"], ViewMenu |-> [Name |-> "x_y"]]
PermissionObject(pn, vm) == Val([permission_name |-> pn, view_menu_name |-> vm])
DeclaredPermissionObjects ==
    {PermissionObject(Val(PermTable[i][1]), Val(PermTable[i][2])) : i \in 1..MaxPermissions}
        \cup {PermissionObject(Val("can_x"), Val("y")), PermissionObject(Val("can_read"), Val("Ghost"))}
DeclaredPermissionLists ==
    {Null, Unknown} \cup {Val(f) : f \in SeqsUpTo(DeclaredPermissionObjects, MaxDeclared)}
                    \cup {Val(<<Null>>), Val(<<PermissionObject(Val("can_read"), Null)>>)}
SourcePermissions ==
    {ListedIn(SortedSeq(idx), PermissionOf) \o tail :
        idx \in SUBSET (1..MaxPermissions), tail \in {<<>>, <<ClashPermission>>}}

ResolveRoleIDsFromNames ==
    /\ Running("resolver", "resolveRoleIDsFromNames", "start")
    /\ loc' = [loc EXCEPT !.result = resolveRoleIDsFromNames(plan, loc.source)]
    /\ pc' = "done"
    /\ UNCHANGED <<handler, plan, prior, remote, calls, diags, state>>

ResolveGroupIDsFromNames ==
    /\ Running("resolver", "resolveGroupIDsFromNames", "start")
    /\ loc' = [loc EXCEPT !.result = resolveGroupIDsFromNames(plan, loc.source)]
    /\ pc' = "done"
    /\ UNCHANGED <<handler, plan, prior, remote, calls, diags, state>>

ResolveRoleIds ==
    /\ Running("resolver", "resolveRoleIds", "start")
    /\ loc' = [loc EXCEPT !.result = resolveRoleIds(plan, loc.source)]
    /\ pc' = "done"
    /\ UNCHANGED <<handler, plan, prior, remote, calls, diags, state>>

ResolvePermissions ==
    /\ Running("resolver", "resolvePermissions", "start")
    /\ loc' = [loc EXCEPT !.result = resolvePermissions(plan, loc.source)]
    /\ pc' = "done"
    /\ UNCHANGED <<handler, plan, prior, remote, calls, diags, state>>

InitResolve ==
    /\ pc = "start"
    /\ calls = <<>>
    /\ diags = <<>>
    /\ prior = StateAbsent
    /\ state = StateAbsent
    /\ remote = [none |-> TRUE]
    /\ \/ /\ handler = [res |-> "resolver", op |-> "resolveRoleIDsFromNames"]
          /\ \E names \in DeclaredNameSets(DeclaredRoleNames), source \in SourceRoles :
               plan = [RoleNames |-> names] /\ loc = [source |-> source, result |-> Panicked]
       \/ /\ handler = [res |-> "resolver", op |-> "resolveGroupIDsFromNames"]
          /\ \E names \in DeclaredNameSets(DeclaredGroupNames), source \in SourceGroups :
               plan = [GroupNames |-> names] /\ loc = [source |-> source, result |-> Panicked]
       \/ /\ handler = [res |-> "resolver", op |-> "resolveRoleIds"]
          /\ \E names \in DeclaredNameSets(DeclaredRoleNames), source \in SourceRoles :
               plan = [RoleNames |-> names] /\ loc = [source |-> source, result |-> Panicked]
       \/ /\ handler = [res |-> "resolver", op |-> "resolvePermissions"]
          /\ \E permissions \in DeclaredPermissionLists, source \in SourcePermissions :
               plan = [Permissions |-> permissions] /\ loc = [source |-> source, result |-> Panicked]

NextResolve ==
    \/ ResolveRoleIDsFromNames
    \/ ResolveGroupIDsFromNames
    \/ ResolveRoleIds
    \/ ResolvePermissions

SpecResolve == InitResolve /\ [][NextResolve]_vars

(***************************************************************************)
(* The client wrapper: paginated listing.  The service answers a page      *)
(* request with the slice of the collection the page number and the page   *)
(* size select.                                                            *)
(***************************************************************************)
pageSize == 2
PageOf(items, pageNumber) ==
    SubSeq(items, pageNumber * pageSize + 1, MinOf({(pageNumber + 1) * pageSize, Len(items)}))
ListPage(items, pageNumber, net) ==
    LET res == Serve(net, 200, PageOf(items, pageNumber)) IN
    IF res.transport = "error" THEN OtherError
    ELSE IF res.status # 200 THEN OtherError
    ELSE Ok(res.body)
_ListRoles(pageNumber, net) == ListPage(remote.roles, pageNumber, net)
_ListGroups(pageNumber, net) == ListPage(remote.groups, pageNumber, net)
_ListPermissions(pageNumber, net) == ListPage(remote.permissions, pageNumber, net)

RECURSIVE ListRolesFrom(_, _, _)
ListRolesFrom(pageNumber, allRoles, net) ==
    LET roles == _ListRoles(pageNumber, net) IN
    IF Failed(roles) THEN roles
    ELSE IF Len(roles.v) < pageSize THEN Ok(allRoles \o roles.v)
    ELSE ListRolesFrom(pageNumber + 1, allRoles \o roles.v, net)
ListRoles(net) == ListRolesFrom(0, <<>>, net)

RECURSIVE ListGroupsFrom(_, _, _)
ListGroupsFrom(pageNumber, allGroups, net) ==
    LET groups == _ListGroups(pageNumber, net) IN
    IF Failed(groups) THEN groups
    ELSE IF Len(groups.v) < pageSize THEN Ok(allGroups \o groups.v)
    ELSE ListGroupsFrom(pageNumber + 1, allGroups \o groups.v, net)
ListGroups(net) == ListGroupsFrom(0, <<>>, net)

RECURSIVE ListPermissionsFrom(_, _, _)
ListPermissionsFrom(pageNumber, allPermissions, net) ==
    LET permissions == _ListPermissions(pageNumber, net) IN
    IF Failed(permissions) THEN permissions
    ELSE IF Len(permissions.v) = 0 THEN Ok(allPermissions \o permissions.v)
    ELSE ListPermissionsFrom(pageNumber + 1, allPermissions \o permissions.v, net)
ListPermissions(net) == ListPermissionsFrom(0, <<>>, net)

(***************************************************************************)
(* The client wrapper: create, update and assign.  Each returns the result *)
(* and what the service holds afterwards.  The service does not refuse a   *)
(* name already in use: it stores the entity under a new id.               *)
(***************************************************************************)
Outcome(r, after) == [r |-> r, remote |-> after]
ById(items, ids) ==
    [i \in 1..Len(ids) |-> (CHOOSE e \in {items[j] : j \in 1..Len(items)} : e.Id = ids[i])]
KnownIds(items, ids) == \A i \in 1..Len(ids) : \E j \in 1..Len(items) : items[j].Id = ids[i]
NewId(items, base) == base + 50 + Len(items)
\* POST answered 201 with the new id, then GET by that id answered 200
PostThenGet(stored, after, netPost, netGet) ==
    LET res == Serve(netPost, 201, [Id |-> stored.Id]) IN
    IF res.transport = "error" THEN Outcome(OtherError, remote)
    ELSE IF res.status # 201 THEN Outcome(OtherError, remote)
    ELSE LET got == Serve(netGet, 200, stored) IN
         IF got.transport = "error" THEN Outcome(OtherError, after)
         ELSE IF got.status # 200 THEN Outcome(OtherError, after)
         ELSE Outcome(Ok(got.body), after)
\* PUT answered 200, then GET by the same id answered 200
PutThenGet(exists, stored, after, netPut, netGet) ==
    LET res == IF exists THEN Serve(netPut, 200, <<>>) ELSE Serve(netPut, 404, <<>>) IN
    IF res.transport = "error" THEN Outcome(OtherError, remote)
    ELSE IF res.status # 200 THEN Outcome(OtherError, remote)
    ELSE LET got == Serve(netGet, 200, stored) IN
         IF got.transport = "error" THEN Outcome(OtherError, after)
         ELSE IF got.status # 200 THEN Outcome(OtherError, after)
         ELSE Outcome(Ok(got.body), after)

CreateUser(user, netPost, netGet) ==
    LET stored == [Id |-> NewId(remote.users, 300), Username |-> user.Username,
                   Active |-> NVal(user.Active),
                   Roles |-> ById(remote.roles, user.Roles),
                   Groups |-> ById(remote.groups, user.Groups)]
    IN PostThenGet(stored, [remote EXCEPT !.users = Append(@, stored)], netPost, netGet)

CreateRole(role, netPost, netGet) ==
    LET stored == [Id |-> NewId(remote.roles, 100), Name |-> role.Name] IN
    PostThenGet(stored,
                [remote EXCEPT !.roles = Append(@, stored),
                               !.rolePermissions = [id \in DOMAIN @ \cup {stored.Id} |->
                                                       IF id \in DOMAIN @ THEN @[id] ELSE <<>>]],
                netPost, netGet)

CreateGroup(group, netPost, netGet) ==
    LET stored == [Id |-> NewId(remote.groups, 200), Name |-> group.Name,
                   Label |-> IF NIsSpecified(group.Label) THEN group.Label ELSE NNull,
                   Roles |-> <<>>]
    IN PostThenGet(stored, [remote EXCEPT !.groups = Append(@, stored)], netPost, netGet)

IndexById(items, id) == CHOOSE i \in 1..Len(items) : items[i].Id = id
HasId(items, id) == \E i \in 1..Len(items) : items[i].Id = id

\* DELETE answered 200
DeleteUser(userID, net) ==
    LET res == IF HasId(remote.users, userID) THEN Serve(net, 200, <<>>) ELSE Serve(net, 404, <<>>) IN
    IF res.transport = "error" THEN Outcome(OtherError, remote)
    ELSE IF res.status # 200 THEN Outcome(OtherError, remote)
    ELSE Outcome(Ok(<<>>), [remote EXCEPT !.users = SelectSeq(@, LAMBDA u : u.Id # userID)])

\* a body that carries no roles leaves the roles of the user as they are
UpdateUser(userID, user, netPut, netGet) ==
    IF /\ HasId(remote.users, userID)
       /\ ("Roles" \in DOMAIN user => KnownIds(remote.roles, user.Roles))
       /\ KnownIds(remote.groups, user.Groups)
    THEN LET i == IndexById(remote.users, userID)
             stored == [remote.users[i] EXCEPT !.Active = NVal(user.Active),
                                               !.Roles = IF "Roles" \in DOMAIN user
                                                         THEN ById(remote.roles, user.Roles) ELSE @,
                                               !.Groups = ById(remote.groups, user.Groups)]
         IN PutThenGet(TRUE, stored, [remote EXCEPT !.users[i] = stored], netPut, netGet)
    ELSE PutThenGet(FALSE, <<>>, remote, netPut, netGet)

\* the service replaces the fields the body carries and keeps the others
UpdateGroup(groupID, group, netPut, netGet) ==
    IF HasId(remote.groups, groupID)
       /\ ("Roles" \in DOMAIN group => KnownIds(remote.roles, group.Roles))
    THEN LET i == IndexById(remote.groups, groupID)
             held == remote.groups[i]
             stored == [Id |-> held.Id,
                        Name |-> IF "Name" \in DOMAIN group THEN group.Name ELSE held.Name,
                        Label |-> IF "Label" \in DOMAIN group /\ NIsSpecified(group.Label)
                                  THEN group.Label ELSE held.Label,
                        Roles |-> IF "Roles" \in DOMAIN group
                                  THEN ById(remote.roles, group.Roles) ELSE held.Roles]
         IN PutThenGet(TRUE, stored, [remote EXCEPT !.groups[i] = stored], netPut, netGet)
    ELSE PutThenGet(FALSE, <<>>, remote, netPut, netGet)

UpdateRole(roleID, role, netPut, netGet) ==
    IF HasId(remote.roles, roleID)
    THEN LET i == IndexById(remote.roles, roleID)
             stored == [remote.roles[i] EXCEPT !.Name = role.Name]
         IN PutThenGet(TRUE, stored, [remote EXCEPT !.roles[i] = stored], netPut, netGet)
    ELSE PutThenGet(FALSE, <<>>, remote, netPut, netGet)

AssignRolesToGroup(groupId, roleIds, netPut, netGet) ==
    LET out == UpdateGroup(groupId, [Roles |-> roleIds], netPut, netGet) IN
    IF Failed(out.r) THEN out ELSE Outcome(Ok(<<>>), out.remote)

RolePermissionOfPermission(p) ==
    [Id |-> p.Id, PermissionName |-> p.Permission.Name, ViewMenuName |-> p.ViewMenu.Name]
AssignPermissionsToRole(roleId, permissionIds, net) ==
    LET known == HasId(remote.roles, roleId) /\ KnownIds(remote.permissions, permissionIds)
        res == IF known THEN Serve(net, 200, <<>>) ELSE Serve(net, 404, <<>>)
        granted == ById(remote.permissions, permissionIds)
    IN
    IF res.transport = "error" THEN Outcome(OtherError, remote)
    ELSE IF res.status # 200 THEN Outcome(OtherError, remote)
    ELSE Outcome(Ok(<<>>),
                 [remote EXCEPT !.rolePermissions[roleId] =
                     [i \in 1..Len(granted) |-> RolePermissionOfPermission(granted[i])]])

(***************************************************************************)
(* Tags, databases and datasets: endpoints and models.                     *)
(***************************************************************************)
FindTag(name, fault) ==
    LET found == SelectSeq(remote.tags, LAMBDA t : t.Name = name) IN
    IF fault THEN OtherError
    ELSE IF Len(found) = 0 THEN NotFoundError
    ELSE Ok(found[1])

CreateTag(tag, fault) ==
    LET stored == [Id |-> NewId(remote.tags, 500), Name |-> tag.Name,
                   Description |-> IF NIsSpecified(tag.Description) THEN tag.Description ELSE NNull]
    IN IF fault THEN Outcome(OtherError, remote)
       ELSE Outcome(Ok(stored), [remote EXCEPT !.tags = Append(@, stored)])

UpdateTag(tagID, tag, fault) ==
    IF fault \/ ~HasId(remote.tags, tagID) THEN Outcome(OtherError, remote)
    ELSE LET i == IndexById(remote.tags, tagID)
             stored == [remote.tags[i] EXCEPT
                           !.Name = tag.Name,
                           !.Description = IF NIsSpecified(tag.Description) THEN tag.Description ELSE @]
         IN Outcome(Ok(stored), [remote EXCEPT !.tags[i] = stored])

tagUpdateState(t) ==
    [Id |-> Val(t.Id), Name |-> Val(t.Name),
     Description |-> IF NIsNull(t.Description) \/ MustGet(t.Description) = ""
                     THEN Null ELSE Val(MustGet(t.Description))]

GetApiV1Database(databaseName, net) ==
    Serve(net, 200, SelectSeq(remote.databases, LAMBDA d : d.DatabaseName = databaseName))

\* an empty result is a plain error here, not a NotFoundError
FindDatabase(databaseName, net) ==
    LET res == GetApiV1Database(databaseName, net) IN
    IF res.transport = "error" THEN OtherError
    ELSE IF res.status # 200 THEN OtherError
    ELSE IF Len(res.body) = 0 THEN OtherError
    ELSE Ok(res.body[1])

CreateDataset(post, fault) ==
    LET stored == [exists |-> TRUE, Id |-> 7, TableName |-> post.TableName,
                   Database |-> ById(remote.databases, <<post.Database>>)[1],
                   Sql |-> IF NIsSpecified(post.Sql) THEN post.Sql ELSE NNull,
                   Description |-> NNull, CacheTimeout |-> NNull, FilterSelectEnabled |-> NNull,
                   FetchValuesPredicate |-> NNull, AlwaysFilterMainDttm |-> NNull,
                   NormalizeColumns |-> NVal(post.NormalizeColumns),
                   IsManagedExternally |-> MustGet(post.IsManagedExternally),
                   Extra |-> NNull, Columns |-> <<>>, Metrics |-> <<>>]
    IN IF fault THEN Outcome(OtherError, remote)
       ELSE Outcome(Ok(stored), [remote EXCEPT !.dataset = stored])

\* client.DatasetRestApiPut{}: nothing specified
DatasetRestApiPut ==
    [Description |-> NUnset, CacheTimeout |-> NUnset, FilterSelectEnabled |-> NUnset,
     FetchValuesPredicate |-> NUnset, Sql |-> NUnset, NormalizeColumns |-> NUnset,
     AlwaysFilterMainDttm |-> FALSE, Catalog |-> NUnset, Schema |-> NUnset, TableName |-> NUnset,
     DatabaseId |-> 0, Owners |-> <<>>, Extra |-> NUnset]

datasetUpdateState(model, d) ==
    parseCertification(
        [model EXCEPT
            !.Id = Val(d.Id),
            !.DatabaseId = Val(d.Database.Id),
            !.DatabaseName = Val(d.Database.DatabaseName),
            !.TableName = Val(d.TableName),
            !.Sql = IF NIsNull(d.Sql) \/ MustGet(d.Sql) = "" THEN Null ELSE Val(MustGet(d.Sql)),
            !.Description = IF NIsNull(d.Description) \/ MustGet(d.Description) = ""
                            THEN Null ELSE Val(MustGet(d.Description)),
            !.CacheTimeout = IF NIsNull(d.CacheTimeout) THEN Null ELSE Val(MustGet(d.CacheTimeout)),
            !.FilterSelectEnabled = IF ~NIsNull(d.FilterSelectEnabled)
                                    THEN Val(MustGet(d.FilterSelectEnabled)) ELSE Null,
            !.FetchValuesPredicate = IF ~NIsNull(d.FetchValuesPredicate) /\ MustGet(d.FetchValuesPredicate) # ""
                                     THEN Val(MustGet(d.FetchValuesPredicate)) ELSE @,
            !.AlwaysFilterMainDttm = IF ~NIsNull(d.AlwaysFilterMainDttm)
                                     THEN Val(MustGet(d.AlwaysFilterMainDttm)) ELSE Null,
            !.NormalizeColumns = IF ~NIsNull(d.NormalizeColumns)
                                 THEN Val(MustGet(d.NormalizeColumns)) ELSE Null,
            !.IsManagedExternally = Val(d.IsManagedExternally)],
        d.Extra)

ValueBool(a) == IF a.k = "value" THEN a.v ELSE FALSE
bootstrapDatabaseName(data) ==
    IF ~IsNull(data.BootstrapDatabaseName) /\ ValueString(data.BootstrapDatabaseName) # ""
    THEN ValueString(data.BootstrapDatabaseName)
    ELSE ValueString(data.DatabaseName)
isChangedBootstrapDatabase(data) == ValueString(data.DatabaseName) # bootstrapDatabaseName(data)

DatasetRestApiPost(data, database) ==
    [TableName |-> ValueString(data.TableName),
     Database |-> database.Id,
     IsManagedExternally |-> NVal(ValueBool(data.IsManagedExternally)),
     Catalog |-> IF ~IsNull(data.Catalog) /\ ValueString(data.Catalog) # ""
                 THEN NVal(ValueString(data.Catalog)) ELSE NUnset,
     Schema |-> IF ~IsNull(data.Schema) THEN NVal(ValueString(data.Schema)) ELSE NUnset,
     Sql |-> IF ~IsNull(data.Sql) THEN NVal(ValueString(data.Sql)) ELSE NUnset,
     NormalizeColumns |-> IF ~IsNull(data.NormalizeColumns) THEN ValueBool(data.NormalizeColumns) ELSE FALSE]

\* Create follows the POST with a PUT only when one of these is declared
DatasetCreateNeedsPut(data) ==
    \/ ~IsNull(data.Description) \/ ~IsNull(data.CacheTimeout) \/ ~IsNull(data.FilterSelectEnabled)
    \/ isChangedBootstrapDatabase(data) \/ ~IsNull(data.CertifiedBy)
    \/ ~IsNull(data.FetchValuesPredicate) \/ ~IsNull(data.AlwaysFilterMainDttm)

OwnersOf(data) ==
    IF ~IsNull(data.OwnerIds) /\ Len(Elements(data.OwnerIds)) > 0
    THEN [i \in 1..Len(Elements(data.OwnerIds)) |-> ValueInt64(Elements(data.OwnerIds)[i])]
    ELSE <<>>

DatasetCreatePut(data, databaseId) ==
    [DatasetRestApiPut EXCEPT
        !.Description = IF ~IsNull(data.Description) THEN NVal(ValueString(data.Description)) ELSE @,
        !.CacheTimeout = IF ~IsNull(data.CacheTimeout) THEN NVal(ValueInt64(data.CacheTimeout)) ELSE @,
        !.FilterSelectEnabled = IF ~IsNull(data.FilterSelectEnabled)
                                THEN NVal(ValueBool(data.FilterSelectEnabled)) ELSE @,
        !.FetchValuesPredicate = IF ~IsNull(data.FetchValuesPredicate)
                                 THEN NVal(ValueString(data.FetchValuesPredicate)) ELSE @,
        !.AlwaysFilterMainDttm = IF ~IsNull(data.AlwaysFilterMainDttm)
                                 THEN ValueBool(data.AlwaysFilterMainDttm) ELSE @,
        !.DatabaseId = databaseId,
        !.Owners = OwnersOf(data),
        !.Extra = IF ~IsNull(data.CertifiedBy) \/ ValueString(data.CertifiedBy) # ""
                  THEN NVal(toExtra(data)) ELSE @]

DatasetUpdatePut(plan_) ==
    [DatasetRestApiPut EXCEPT
        !.Description = IF ~IsNull(plan_.Description) THEN NVal(ValueString(plan_.Description)) ELSE @,
        !.CacheTimeout = IF ~IsNull(plan_.CacheTimeout) THEN NVal(ValueInt64(plan_.CacheTimeout)) ELSE @,
        !.FilterSelectEnabled = IF ~IsNull(plan_.FilterSelectEnabled)
                                THEN NVal(ValueBool(plan_.FilterSelectEnabled)) ELSE @,
        !.FetchValuesPredicate = IF ~IsNull(plan_.FetchValuesPredicate)
                                 THEN NVal(ValueString(plan_.FetchValuesPredicate)) ELSE @,
        !.Sql = IF ~IsNull(plan_.Sql) THEN NVal(ValueString(plan_.Sql)) ELSE @,
        !.NormalizeColumns = IF ~IsNull(plan_.NormalizeColumns)
                             THEN NVal(ValueBool(plan_.NormalizeColumns)) ELSE @,
        !.AlwaysFilterMainDttm = IF ~IsNull(plan_.AlwaysFilterMainDttm)
                                 THEN ValueBool(plan_.AlwaysFilterMainDttm) ELSE @,
        !.Catalog = IF ~IsNull(plan_.Catalog) /\ ValueString(plan_.Catalog) # ""
                    THEN NVal(ValueString(plan_.Catalog)) ELSE @,
        !.Schema = IF ~IsNull(plan_.Schema) THEN NVal(ValueString(plan_.Schema)) ELSE @,
        !.TableName = IF ~IsNull(plan_.TableName) THEN NVal(ValueString(plan_.TableName)) ELSE @,
        !.Owners = OwnersOf(plan_),
        !.Extra = IF ~IsNull(plan_.CertifiedBy) \/ ValueString(plan_.CertifiedBy) # ""
                  THEN NVal(toExtra(plan_)) ELSE @]

(***************************************************************************)
(* User resource: Create and Update.                                       *)
(***************************************************************************)
Sprintf(format, args) == [format |-> format, args |-> args]
PasswordOf(data) == IF ~IsNull(data.Password) THEN Val(ValueString(data.Password)) ELSE Null

UserCreateListRoles ==
    /\ Running("user", "Create", "start")
    /\ \E net \in NetGet :
         LET roles == ListRoles(net)
             r == resolveRoleIDsFromNames(plan, roles.v)
         IN
         /\ calls' = Call("ListRoles", "", roles)
         /\ IF Failed(roles)
            THEN /\ diags' = AddError(diags, "Client Error", Sprintf("Unable to list roles: %s", <<"err">>))
                 /\ pc' = "done" /\ loc' = loc
            ELSE IF Len(r.notFound) > 0
            THEN /\ diags' = AddError(diags, "Client Error", Sprintf("Unable to find roles: %v", <<r.notFound>>))
                 /\ pc' = "done" /\ loc' = loc
            ELSE /\ diags' = diags
                 /\ pc' = "roles" /\ loc' = [roleIds |-> r.ids, groupIds |-> <<>>]
    /\ UNCHANGED <<handler, plan, prior, remote, state>>

UserCreateListGroups ==
    /\ Running("user", "Create", "roles")
    /\ IF Len(Elements(plan.GroupNames)) > 0
       THEN \E net \in NetGet :
              LET groups == ListGroups(net)
                  r == resolveGroupIDsFromNames(plan, groups.v)
              IN
              /\ calls' = Call("ListGroups", "", groups)
              /\ IF Failed(groups)
                 THEN /\ diags' = AddError(diags, "Client Error", Sprintf("Unable to list groups: %s", <<"err">>))
                      /\ pc' = "done" /\ loc' = loc
                 ELSE IF Len(r.notFound) > 0
                 THEN /\ diags' = AddError(diags, "Client Error",
                                           Sprintf("Unable to find groups: %v", <<r.notFound>>))
                      /\ pc' = "done" /\ loc' = loc
                 ELSE /\ diags' = diags
                      /\ pc' = "groups" /\ loc' = [loc EXCEPT !.groupIds = r.ids]
       ELSE pc' = "groups" /\ UNCHANGED <<calls, diags, loc>>
    /\ UNCHANGED <<handler, plan, prior, remote, state>>

UserCreateFindUserUnchecked ==
    /\ Running("user", "Create", "groups")
    /\ \E net \in NetList :
         LET existingUser == FindUser(ValueString(plan.Username), net) IN
         /\ calls' = Call("FindUser", ValueString(plan.Username), existingUser)
         /\ diags' = diags /\ pc' = "unique"
    /\ UNCHANGED <<handler, plan, prior, remote, state, loc>>

UserCreateFindUser ==
    /\ Running("user", "Create", "groups")
    /\ \E net \in NetList :
         LET existingUser == FindUser(ValueString(plan.Username), net) IN
         /\ calls' = Call("FindUser", ValueString(plan.Username), existingUser)
         /\ IF ~IsNotFound(existingUser) /\ Failed(existingUser)
            THEN /\ diags' = AddError(diags, "Client Error",
                                      Sprintf("Unable to validate user name uniqueness: %s", <<"err">>))
                 /\ pc' = "done"
            ELSE IF ~Failed(existingUser)
            THEN /\ diags' = AddError(diags, "Client Error",
                                      Sprintf("A user with username '%s' already exists with ID %d",
                                              <<ValueString(plan.Username), existingUser.v.Id>>))
                 /\ pc' = "done"
            ELSE diags' = diags /\ pc' = "unique"
    /\ UNCHANGED <<handler, plan, prior, remote, state, loc>>

UserCreateCreateUser ==
    /\ Running("user", "Create", "unique")
    /\ \E netPost \in NetGet, netGet \in NetGet :
         LET postData == [Username |-> ValueString(plan.Username), Active |-> ValueBool(plan.Active),
                          Roles |-> loc.roleIds, Groups |-> loc.groupIds]
             out == CreateUser(postData, netPost, netGet)
         IN
         /\ calls' = Call("CreateUser", postData.Username, out.r)
         /\ remote' = out.remote
         /\ IF Failed(out.r)
            THEN /\ diags' = AddError(diags, "Client Error", Sprintf("Unable to create user, got error: %s", <<"err">>))
                 /\ state' = state
            ELSE /\ diags' = diags
                 /\ state' = StateOf(userUpdateState(out.r.v, PasswordOf(plan)))
    /\ pc' = "done"
    /\ UNCHANGED <<handler, plan, prior, loc>>

UserUpdateListGroups ==
    /\ Running("user", "Update", "start")
    /\ IF Len(Elements(plan.GroupNames)) > 0
       THEN \E net \in NetGet :
              LET sourceGroups == ListGroups(net)
                  r == resolveGroupIDsFromNames(plan, sourceGroups.v)
              IN
              /\ calls' = Call("ListGroups", "", sourceGroups)
              /\ IF Failed(sourceGroups)
                 THEN /\ diags' = AddError(diags, "Client Error", Sprintf("Unable to list groups: %s", <<"err">>))
                      /\ pc' = "done" /\ loc' = loc
                 ELSE IF Len(r.notFound) > 0
                 THEN /\ diags' = AddError(diags, "Client Error",
                                           Sprintf("Unable to find groups: %v", <<r.notFound>>))
                      /\ pc' = "done" /\ loc' = loc
                 ELSE /\ diags' = diags
                      /\ pc' = "groups" /\ loc' = [roleIds |-> <<>>, groupIds |-> r.ids]
       ELSE /\ pc' = "groups" /\ loc' = [roleIds |-> <<>>, groupIds |-> <<>>]
            /\ UNCHANGED <<calls, diags>>
    /\ UNCHANGED <<handler, plan, prior, remote, state>>

UserUpdateListRoles ==
    /\ Running("user", "Update", "groups")
    /\ IF Len(Elements(plan.RoleNames)) > 0
       THEN \E net \in NetGet :
              LET roles == ListRoles(net)
                  r == resolveRoleIDsFromNames(plan, roles.v)
              IN
              /\ calls' = Call("ListRoles", "", roles)
              /\ IF Failed(roles)
                 THEN /\ diags' = AddError(diags, "Client Error", Sprintf("Unable to list roles: %s", <<"err">>))
                      /\ pc' = "done" /\ loc' = loc
                 ELSE IF Len(r.notFound) > 0
                 THEN /\ diags' = AddError(diags, "Client Error",
                                           Sprintf("Unable to find roles: %v", <<r.notFound>>))
                      /\ pc' = "done" /\ loc' = loc
                 ELSE /\ diags' = diags
                      /\ pc' = "roles" /\ loc' = [loc EXCEPT !.roleIds = r.ids]
       ELSE pc' = "roles" /\ UNCHANGED <<calls, diags, loc>>
    /\ UNCHANGED <<handler, plan, prior, remote, state>>

UserUpdateUpdateUser ==
    /\ Running("user", "Update", "roles")
    /\ \E netPut \in NetGet, netGet \in NetGet :
         LET putData == [Active |-> ValueBool(plan.Active), Roles |-> loc.roleIds, Groups |-> loc.groupIds]
             out == UpdateUser(ValueInt64(plan.Id), putData, netPut, netGet)
         IN
         /\ calls' = Call("UpdateUser", ValueInt64(plan.Id), out.r)
         /\ remote' = out.remote
         /\ IF Failed(out.r)
            THEN /\ diags' = AddError(diags, "Client Error",
                                      Sprintf("Unable to update user with ID %d: %s", <<ValueInt64(prior.v.Id), "err">>))
                 /\ state' = state
            ELSE /\ diags' = diags
                 /\ state' = StateOf(userUpdateState(out.r.v, PasswordOf(plan)))
    /\ pc' = "done"
    /\ UNCHANGED <<handler, plan, prior, loc>>

(***************************************************************************)
(* Role, group and tag resources: Create.                                  *)
(***************************************************************************)
RoleCreateFindRole ==
    /\ Running("role", "Create", "start")
    /\ \E net \in NetList :
         LET existingRole == FindRole(ValueString(plan.Name), net) IN
         /\ calls' = Call("FindRole", ValueString(plan.Name), existingRole)
         /\ IF ~IsNotFound(existingRole) /\ Failed(existingRole)
            THEN /\ diags' = AddError(diags, "Client Error",
                                      Sprintf("Unable to validate role name uniqueness: %s", <<"err">>))
                 /\ pc' = "done"
            ELSE IF ~Failed(existingRole)
            THEN /\ diags' = AddError(diags, "Client Error",
                                      Sprintf("A role with name '%s' already exists with ID %d",
                                              <<ValueString(plan.Name), existingRole.v.Id>>))
                 /\ pc' = "done"
            ELSE diags' = diags /\ pc' = "unique"
    /\ UNCHANGED <<handler, plan, prior, remote, state, loc>>

RoleCreateCreateRole ==
    /\ Running("role", "Create", "unique")
    /\ \E netPost \in NetGet, netGet \in NetGet :
         LET postData == [Name |-> ValueString(plan.Name)]
             out == CreateRole(postData, netPost, netGet)
         IN
         /\ calls' = Call("CreateRole", postData.Name, out.r)
         /\ remote' = out.remote
         /\ IF Failed(out.r)
            THEN /\ diags' = AddError(diags, "Client Error", Sprintf("Unable to create role, got error: %s", <<"err">>))
                 /\ state' = state
            ELSE diags' = diags /\ state' = StateOf(roleUpdateState(out.r.v))
    /\ pc' = "done"
    /\ UNCHANGED <<handler, plan, prior, loc>>

GroupCreateFindGroupAdopts ==
    /\ Running("group", "Create", "start")
    /\ \E net \in NetList :
         LET existingGroup == FindGroup(ValueString(plan.Name), net) IN
         /\ calls' = Call("FindGroup", ValueString(plan.Name), existingGroup)
         /\ IF ~IsNotFound(existingGroup) /\ Failed(existingGroup)
            THEN /\ diags' = AddError(diags, "Client Error",
                                      Sprintf("Unable to validate group name uniqueness: %s", <<"err">>))
                 /\ pc' = "done" /\ state' = state
            ELSE IF ~Failed(existingGroup)
            THEN /\ diags' = diags /\ pc' = "done"
                 /\ state' = StateOf(groupUpdateState(existingGroup.v))
            ELSE diags' = diags /\ pc' = "unique" /\ state' = state
    /\ UNCHANGED <<handler, plan, prior, remote, loc>>

GroupCreateFindGroup ==
    /\ Running("group", "Create", "start")
    /\ \E net \in NetList :
         LET existingGroup == FindGroup(ValueString(plan.Name), net) IN
         /\ calls' = Call("FindGroup", ValueString(plan.Name), existingGroup)
         /\ IF ~IsNotFound(existingGroup) /\ Failed(existingGroup)
            THEN /\ diags' = AddError(diags, "Client Error",
                                      Sprintf("Unable to validate group name uniqueness: %s", <<"err">>))
                 /\ pc' = "done"
            ELSE IF ~Failed(existingGroup)
            THEN /\ diags' = AddError(diags, "Client Error",
                                      Sprintf("A group with name '%s' already exists with ID %d",
                                              <<ValueString(plan.Name), existingGroup.v.Id>>))
                 /\ pc' = "done"
            ELSE diags' = diags /\ pc' = "unique"
    /\ UNCHANGED <<handler, plan, prior, remote, state, loc>>

GroupCreateCreateGroup ==
    /\ Running("group", "Create", "unique")
    /\ \E netPost \in NetGet, netGet \in NetGet :
         LET postData == [Name |-> ValueString(plan.Name),
                          Label |-> IF ~IsNull(plan.Label) THEN NVal(ValueString(plan.Label)) ELSE NUnset]
             out == CreateGroup(postData, netPost, netGet)
         IN
         /\ calls' = Call("CreateGroup", postData.Name, out.r)
         /\ remote' = out.remote
         /\ IF Failed(out.r)
            THEN /\ diags' = AddError(diags, "Client Error", Sprintf("Unable to create group, got error: %s", <<"err">>))
                 /\ state' = state
            ELSE diags' = diags /\ state' = StateOf(groupUpdateState(out.r.v))
    /\ pc' = "done"
    /\ UNCHANGED <<handler, plan, prior, loc>>

TagCreateFindTag ==
    /\ Running("tag", "Create", "start")
    /\ \E fault \in BOOLEAN :
         LET existingTag == FindTag(ValueString(plan.Name), fault) IN
         /\ calls' = Call("FindTag", ValueString(plan.Name), existingTag)
         /\ IF ~IsNotFound(existingTag) /\ Failed(existingTag)
            THEN /\ diags' = AddError(diags, "Client Error",
                                      Sprintf("Unable to validate tag name uniqueness: %s", <<"err">>))
                 /\ pc' = "done"
            ELSE IF ~Failed(existingTag)
            THEN /\ diags' = AddError(diags, "Client Error",
                                      Sprintf("A tag with name '%s' already exists with ID %d",
                                              <<ValueString(plan.Name), existingTag.v.Id>>))
                 /\ pc' = "done"
            ELSE diags' = diags /\ pc' = "unique"
    /\ UNCHANGED <<handler, plan, prior, remote, state, loc>>

TagCreateCreateTag ==
    /\ Running("tag", "Create", "unique")
    /\ \E fault \in BOOLEAN :
         LET postData == [Name |-> ValueString(plan.Name),
                          Description |-> IF ~IsNull(plan.Description)
                                          THEN NVal(ValueString(plan.Description)) ELSE NUnset]
             out == CreateTag(postData, fault)
         IN
         /\ calls' = Call("CreateTag", postData.Name, out.r)
         /\ remote' = out.remote
         /\ IF Failed(out.r)
            THEN /\ diags' = AddError(diags, "Client Error", Sprintf("Unable to create tag, got error: %s", <<"err">>))
                 /\ state' = state
            ELSE diags' = diags /\ state' = StateOf(tagUpdateState(out.r.v))
    /\ pc' = "done"
    /\ UNCHANGED <<handler, plan, prior, loc>>

(***************************************************************************)
(* Role, group and tag resources: Update.  Each handler sends the planned  *)
(* fields under the id held in state, derives the model of the prior state *)
(* from the entity read back, and persists the plan.                       *)
(***************************************************************************)
RoleUpdate ==
    /\ Running("role", "Update", "start")
    /\ \E netPut \in NetGet, netGet \in NetGet :
         LET putData == [Name |-> ValueString(plan.Name)]
             out == UpdateRole(ValueInt64(prior.v.Id), putData, netPut, netGet)
         IN
         /\ calls' = Call("UpdateRole", ValueInt64(prior.v.Id), out.r)
         /\ remote' = out.remote
         /\ IF Failed(out.r)
            THEN /\ diags' = AddError(diags, "Client Error",
                                      Sprintf("Unable to update role with ID %d: %s",
                                              <<ValueInt64(prior.v.Id), "err">>))
                 /\ state' = state
                 /\ loc' = loc
            ELSE /\ diags' = diags
                 /\ loc' = [readBack |-> roleUpdateState(out.r.v)]
                 /\ state' = StateOf(plan)
    /\ pc' = "done"
    /\ UNCHANGED <<handler, plan, prior>>

GroupUpdate ==
    /\ Running("group", "Update", "start")
    /\ \E netPut \in NetGet, netGet \in NetGet :
         LET putData == IF ~IsNull(plan.Label)
                        THEN [Name |-> ValueString(plan.Name), Label |-> NVal(ValueString(plan.Label))]
                        ELSE [Name |-> ValueString(plan.Name), Label |-> NUnset]
             out == UpdateGroup(ValueInt64(prior.v.Id), putData, netPut, netGet)
         IN
         /\ calls' = Call("UpdateGroup", ValueInt64(prior.v.Id), out.r)
         /\ remote' = out.remote
         /\ IF Failed(out.r)
            THEN /\ diags' = AddError(diags, "Client Error",
                                      Sprintf("Unable to update group with ID %d: %s",
                                              <<ValueInt64(prior.v.Id), "err">>))
                 /\ state' = state
                 /\ loc' = loc
            ELSE /\ diags' = diags
                 /\ loc' = [readBack |-> groupUpdateState(out.r.v)]
                 /\ state' = StateOf(plan)
    /\ pc' = "done"
    /\ UNCHANGED <<handler, plan, prior>>

TagUpdate ==
    /\ Running("tag", "Update", "start")
    /\ \E fault \in BOOLEAN :
         LET putData == [Name |-> ValueString(plan.Name),
                         Description |-> IF ~IsNull(plan.Description)
                                         THEN NVal(ValueString(plan.Description)) ELSE NUnset]
             out == UpdateTag(ValueInt64(prior.v.Id), putData, fault)
         IN
         /\ calls' = Call("UpdateTag", ValueInt64(prior.v.Id), out.r)
         /\ remote' = out.remote
         /\ IF Failed(out.r)
            THEN /\ diags' = AddError(diags, "Client Error",
                                      Sprintf("Unable to update tag with ID %d: %s",
                                              <<ValueInt64(prior.v.Id), "err">>))
                 /\ state' = state
                 /\ loc' = loc
            ELSE /\ diags' = diags
                 /\ loc' = [readBack |-> tagUpdateState(out.r.v)]
                 /\ state' = StateOf(plan)
    /\ pc' = "done"
    /\ UNCHANGED <<handler, plan, prior>>

(***************************************************************************)
(* Dataset resource: Create and Update.                                    *)
(***************************************************************************)
DatasetCreated(data, d, bootstrapDatabaseId) ==
    LET updated == datasetUpdateState(data, d)
        withId == [updated EXCEPT !.BootstrapDatabaseId = Val(bootstrapDatabaseId)]
    IN IF isChangedBootstrapDatabase(data)
       THEN [withId EXCEPT !.BootstrapDatabaseName = Val(bootstrapDatabaseName(data))]
       ELSE withId

DatasetCreateFindDatabase ==
    /\ Running("dataset", "Create", "start")
    /\ \E net \in NetGet :
         LET database == FindDatabase(bootstrapDatabaseName(plan), net) IN
         /\ calls' = Call("FindDatabase", bootstrapDatabaseName(plan), database)
         /\ IF Failed(database)
            THEN /\ diags' = AddError(diags, "Client Error",
                                      Sprintf("Unable to find Database with name '%s': %s",
                                              <<ValueString(plan.DatabaseName), "err">>))
                 /\ pc' = "done" /\ loc' = loc
            ELSE diags' = diags /\ pc' = "database" /\ loc' = [database |-> database.v]
    /\ UNCHANGED <<handler, plan, prior, remote, state>>

DatasetCreateFindDataset ==
    /\ Running("dataset", "Create", "database")
    /\ \E fault \in BOOLEAN :
         LET postData == DatasetRestApiPost(plan, loc.database)
             existingDataset == FindDataset(postData.TableName, fault)
         IN
         /\ calls' = Call("FindDataset", postData.TableName, existingDataset)
         /\ IF ~IsNotFound(existingDataset) /\ Failed(existingDataset)
            THEN /\ diags' = AddError(diags, "Client Error",
                                      Sprintf("Unable to validate Dataset name uniqueness: %s", <<"err">>))
                 /\ pc' = "done"
            ELSE IF ~Failed(existingDataset)
            THEN /\ diags' = AddError(diags, "Client Error",
                                      Sprintf("A Dataset with name '%s' already exists with ID %d",
                                              <<postData.TableName, existingDataset.v.Id>>))
                 /\ pc' = "done"
            ELSE diags' = diags /\ pc' = "unique"
    /\ UNCHANGED <<handler, plan, prior, remote, state, loc>>

DatasetCreateCreateDataset ==
    /\ Running("dataset", "Create", "unique")
    /\ \E fault \in BOOLEAN :
         LET postData == DatasetRestApiPost(plan, loc.database)
             out == CreateDataset(postData, fault)
         IN
         /\ calls' = Append(calls, [op |-> "CreateDataset", arg |-> postData.TableName,
                                    post |-> postData, res |-> out.r.err])
         /\ remote' = out.remote
         /\ IF Failed(out.r)
            THEN /\ diags' = AddError(diags, "Client Error",
                                      Sprintf("Unable to create Dataset, got error: %s", <<"err">>))
                 /\ pc' = "done" /\ UNCHANGED <<state, loc>>
            ELSE IF DatasetCreateNeedsPut(plan)
            THEN /\ pc' = "created" /\ loc' = [database |-> loc.database, d |-> out.r.v]
                 /\ UNCHANGED <<diags, state>>
            ELSE /\ pc' = "done" /\ UNCHANGED <<diags, loc>>
                 /\ state' = StateOf(DatasetCreated(plan, out.r.v, loc.database.Id))
    /\ UNCHANGED <<handler, plan, prior>>

DatasetCreateUpdateDataset ==
    /\ Running("dataset", "Create", "created")
    /\ \E net \in NetGet, fault \in BOOLEAN :
         LET changed == isChangedBootstrapDatabase(plan)
             database == FindDatabase(ValueString(plan.DatabaseName), net)
             found == IF changed THEN Call("FindDatabase", ValueString(plan.DatabaseName), database) ELSE calls
             putData == DatasetCreatePut(plan, IF changed THEN database.v.Id ELSE 0)
             r == UpdateDataset(loc.d.Id, putData, fault)
         IN
         IF changed /\ Failed(database)
         THEN /\ calls' = found
              /\ diags' = AddError(diags, "Client Error",
                                   Sprintf("Unable to find Database with name '%s': %s",
                                           <<ValueString(plan.DatabaseName), "err">>))
              /\ pc' = "done"
              /\ UNCHANGED <<remote, state>>
         ELSE /\ calls' = Append(found, [op |-> "UpdateDataset", arg |-> loc.d.Id,
                                         put |-> putData, res |-> r.err])
              /\ IF Failed(r)
                 \* d is assigned the missing result before the message reads d.Id
                 THEN /\ pc' = "panic"
                      /\ UNCHANGED <<remote, state, diags>>
                 ELSE /\ remote' = [remote EXCEPT !.dataset = r.v]
                      /\ state' = StateOf(DatasetCreated(plan, r.v, loc.database.Id))
                      /\ diags' = diags
                      /\ pc' = "done"
    /\ UNCHANGED <<handler, plan, prior, loc>>

\* Update reads the result into the prior state's model and saves the plan
DatasetUpdate ==
    /\ Running("dataset", "Update", "start")
    /\ \E fault \in BOOLEAN :
         LET putData == DatasetUpdatePut(plan)
             g == UpdateDataset(ValueInt64(prior.v.Id), putData, fault)
         IN
         /\ calls' = Append(calls, [op |-> "UpdateDataset", arg |-> ValueInt64(prior.v.Id),
                                    put |-> putData, res |-> g.err])
         /\ IF Failed(g)
            THEN /\ diags' = AddError(diags, "Client Error",
                                      Sprintf("Unable to update Dataset with ID %d: %s",
                                              <<ValueInt64(prior.v.Id), "err">>))
                 /\ UNCHANGED <<remote, state>>
            ELSE /\ remote' = [remote EXCEPT !.dataset = g.v]
                 /\ state' = StateOf(plan)
                 /\ diags' = diags
    /\ pc' = "done"
    /\ UNCHANGED <<handler, plan, prior, loc>>

(***************************************************************************)
(* Group role binding resource: Create and Update.                         *)
(***************************************************************************)
GroupRoleBindingCreateListRoles ==
    /\ Running("group_role_binding", "Create", "start")
    /\ \E net \in NetGet :
         LET sourceRoles == ListRoles(net)
             r == resolveRoleIds(plan, sourceRoles.v)
         IN
         /\ calls' = Call("ListRoles", "", sourceRoles)
         /\ IF Failed(sourceRoles)
            THEN /\ diags' = AddError(diags, "Client Error", Sprintf("Unable to list roles: %s", <<"err">>))
                 /\ pc' = "done" /\ loc' = loc
            ELSE IF r.panic
            THEN pc' = "panic" /\ UNCHANGED <<diags, loc>>
            ELSE IF Len(r.notFound) > 0
            THEN /\ diags' = AddError(diags, "Invalid Roles",
                                      Sprintf("The following roles were not found: %v", <<r.notFound>>))
                 /\ pc' = "done" /\ loc' = loc
            ELSE diags' = diags /\ pc' = "roles" /\ loc' = [roleIds |-> r.ids]
    /\ UNCHANGED <<handler, plan, prior, remote, state>>

GroupRoleBindingCreateFindGroup ==
    /\ Running("group_role_binding", "Create", "roles")
    /\ \E net \in NetList :
         LET group == FindGroup(ValueString(plan.GroupName), net) IN
         /\ calls' = Call("FindGroup", ValueString(plan.GroupName), group)
         /\ IF Failed(group)
            THEN /\ diags' = AddError(diags, "Client Error",
                                      Sprintf("Unable to find group with name %s: %s",
                                              <<ValueString(plan.GroupName), "err">>))
                 /\ pc' = "done" /\ loc' = loc
            ELSE diags' = diags /\ pc' = "group" /\ loc' = [roleIds |-> loc.roleIds, groupId |-> group.v.Id]
    /\ UNCHANGED <<handler, plan, prior, remote, state>>

GroupRoleBindingCreateAssignRolesToGroup ==
    /\ Running("group_role_binding", "Create", "group")
    /\ \E netPut \in NetGet, netGet \in NetGet :
         LET out == AssignRolesToGroup(loc.groupId, loc.roleIds, netPut, netGet) IN
         /\ calls' = Append(calls, [op |-> "AssignRolesToGroup", arg |-> loc.groupId,
                                    ids |-> loc.roleIds, res |-> out.r.err])
         /\ remote' = out.remote
         /\ IF Failed(out.r)
            THEN /\ diags' = AddError(diags, "Client Error",
                                      Sprintf("Unable to assign roles to group ID %d: %s", <<loc.groupId, "err">>))
                 /\ pc' = "done"
            ELSE diags' = diags /\ pc' = "assigned"
    /\ UNCHANGED <<handler, plan, prior, loc, state>>

GroupRoleBindingCreateReadBack ==
    /\ Running("group_role_binding", "Create", "assigned")
    /\ \E net \in NetList :
         LET group == FindGroup(ValueString(plan.GroupName), net) IN
         /\ calls' = Call("FindGroup", ValueString(plan.GroupName), group)
         /\ IF Failed(group)
            THEN /\ diags' = AddError(diags, "Client Error",
                                      Sprintf("Unable to find group with name %s: %s",
                                              <<ValueString(plan.GroupName), "err">>))
                 /\ state' = state
            ELSE /\ diags' = diags
                 /\ state' = StateOf(groupRoleBindingUpdateState(group.v))
    /\ pc' = "done"
    /\ UNCHANGED <<handler, plan, prior, remote, loc>>

GroupRoleBindingUpdateListRoles ==
    /\ Running("group_role_binding", "Update", "start")
    /\ \E net \in NetGet :
         LET sourceRoles == ListRoles(net)
             r == resolveRoleIds(plan, sourceRoles.v)
         IN
         /\ calls' = Call("ListRoles", "", sourceRoles)
         /\ IF Failed(sourceRoles)
            THEN /\ diags' = AddError(diags, "Client Error", Sprintf("Unable to list roles: %s", <<"err">>))
                 /\ pc' = "done" /\ loc' = loc
            ELSE IF r.panic
            THEN pc' = "panic" /\ UNCHANGED <<diags, loc>>
            ELSE IF Len(r.notFound) > 0
            THEN /\ diags' = AddError(diags, "Invalid Roles",
                                      Sprintf("The following roles were not found: %v", <<r.notFound>>))
                 /\ pc' = "done" /\ loc' = loc
            ELSE diags' = diags /\ pc' = "roles" /\ loc' = [roleIds |-> r.ids]
    /\ UNCHANGED <<handler, plan, prior, remote, state>>

GroupRoleBindingUpdateAssignRolesToGroup ==
    /\ Running("group_role_binding", "Update", "roles")
    /\ \E netPut \in NetGet, netGet \in NetGet :
         LET groupId == ValueInt64(plan.GroupId)
             out == AssignRolesToGroup(groupId, loc.roleIds, netPut, netGet)
         IN
         /\ calls' = Append(calls, [op |-> "AssignRolesToGroup", arg |-> groupId,
                                    ids |-> loc.roleIds, res |-> out.r.err])
         /\ remote' = out.remote
         /\ IF Failed(out.r)
            THEN /\ diags' = AddError(diags, "Client Error",
                                      Sprintf("Unable to assign roles to group ID %d: %s", <<groupId, "err">>))
                 /\ pc' = "done"
            ELSE diags' = diags /\ pc' = "assigned"
    /\ UNCHANGED <<handler, plan, prior, loc, state>>

GroupRoleBindingUpdateReadBack ==
    /\ Running("group_role_binding", "Update", "assigned")
    /\ \E net \in NetList :
         LET group == FindGroup(ValueString(plan.GroupName), net) IN
         /\ calls' = Call("FindGroup", ValueString(plan.GroupName), group)
         /\ IF Failed(group)
            THEN /\ diags' = AddError(diags, "Client Error",
                                      Sprintf("Unable to find group with name %s: %s",
                                              <<ValueString(plan.GroupName), "err">>))
                 /\ state' = state
            ELSE /\ diags' = diags
                 /\ state' = StateOf(groupRoleBindingUpdateState(group.v))
    /\ pc' = "done"
    /\ UNCHANGED <<handler, plan, prior, remote, loc>>

(***************************************************************************)
(* Role permissions resource: Create and Update.                           *)
(***************************************************************************)
PermissionIds(permissions) == [i \in 1..Len(permissions) |-> permissions[i].Id]

RolePermissionsCreateFindRole ==
    /\ Running("role_permissions", "Create", "start")
    /\ \E net \in NetList :
         LET role == FindRole(ValueString(plan.RoleName), net) IN
         /\ calls' = Call("FindRole", ValueString(plan.RoleName), role)
         /\ IF Failed(role)
            THEN /\ diags' = AddError(diags, "Client Error",
                                      Sprintf("Unable to find role with name %s: %s",
                                              <<ValueString(plan.RoleName), "err">>))
                 /\ pc' = "done" /\ loc' = loc
            ELSE diags' = diags /\ pc' = "role" /\ loc' = [role |-> role.v]
    /\ UNCHANGED <<handler, plan, prior, remote, state>>

RolePermissionsCreateListPermissions ==
    /\ Running("role_permissions", "Create", "role")
    /\ \E net \in NetGet :
         LET sourcePermissions == ListPermissions(net)
             r == resolvePermissions(plan, sourcePermissions.v)
         IN
         /\ calls' = Call("ListPermissions", "", sourcePermissions)
         /\ IF Failed(sourcePermissions)
            THEN /\ diags' = AddError(diags, "Client Error", Sprintf("Unable to list permissions: %s", <<"err">>))
                 /\ pc' = "done" /\ loc' = loc
            ELSE IF r.panic
            THEN pc' = "panic" /\ UNCHANGED <<diags, loc>>
            ELSE IF Len(r.notFound) > 0
            THEN /\ diags' = AddError(diags, "Invalid Permissions",
                                      Sprintf("The following permissions were not found: %v", <<r.notFound>>))
                 /\ pc' = "done" /\ loc' = loc
            ELSE diags' = diags /\ pc' = "permissions" /\ loc' = [role |-> loc.role, permissions |-> r.ids]
    /\ UNCHANGED <<handler, plan, prior, remote, state>>

RolePermissionsCreateAssignPermissionsToRole ==
    /\ Running("role_permissions", "Create", "permissions")
    /\ \E net \in NetGet :
         LET permissionIds == PermissionIds(loc.permissions)
             out == AssignPermissionsToRole(loc.role.Id, permissionIds, net)
         IN
         /\ calls' = Append(calls, [op |-> "AssignPermissionsToRole", arg |-> loc.role.Id,
                                    ids |-> permissionIds, res |-> out.r.err])
         /\ remote' = out.remote
         /\ IF Failed(out.r)
            THEN /\ diags' = AddError(diags, "Client Error", Sprintf("Unable to create role, got error: %s", <<"err">>))
                 /\ state' = state
            ELSE /\ diags' = diags
                 /\ state' = StateOf(rolePermissionUpdateState(loc.role.Id, loc.role.Name, loc.permissions))
    /\ pc' = "done"
    /\ UNCHANGED <<handler, plan, prior, loc>>

RolePermissionsUpdateFindRole ==
    /\ Running("role_permissions", "Update", "start")
    /\ \E net \in NetList :
         LET role == FindRole(ValueString(plan.RoleName), net) IN
         /\ calls' = Call("FindRole", ValueString(plan.RoleName), role)
         /\ IF Failed(role)
            THEN /\ diags' = AddError(diags, "Client Error",
                                      Sprintf("Unable to find role with name %s: %s",
                                              <<ValueString(plan.RoleName), "err">>))
                 /\ pc' = "done" /\ loc' = loc
            ELSE diags' = diags /\ pc' = "role" /\ loc' = [role |-> role.v]
    /\ UNCHANGED <<handler, plan, prior, remote, state>>

RolePermissionsUpdateListPermissions ==
    /\ Running("role_permissions", "Update", "role")
    /\ \E net \in NetGet :
         LET sourcePermissions == ListPermissions(net)
             r == resolvePermissions(plan, sourcePermissions.v)
         IN
         /\ calls' = Call("ListPermissions", "", sourcePermissions)
         /\ IF Failed(sourcePermissions)
            THEN /\ diags' = AddError(diags, "Client Error", Sprintf("Unable to list permissions: %s", <<"err">>))
                 /\ pc' = "done" /\ loc' = loc
            ELSE IF r.panic
            THEN pc' = "panic" /\ UNCHANGED <<diags, loc>>
            ELSE IF Len(r.notFound) > 0
            THEN /\ diags' = AddError(diags, "Invalid Permissions",
                                      Sprintf("The following permissions were not found: %v", <<r.notFound>>))
                 /\ pc' = "done" /\ loc' = loc
            ELSE diags' = diags /\ pc' = "permissions" /\ loc' = [role |-> loc.role, permissions |-> r.ids]
    /\ UNCHANGED <<handler, plan, prior, remote, state>>

RolePermissionsUpdateAssignPermissionsToRole ==
    /\ Running("role_permissions", "Update", "permissions")
    /\ \E net \in NetGet :
         LET permissionIds == PermissionIds(loc.permissions)
             out == AssignPermissionsToRole(loc.role.Id, permissionIds, net)
         IN
         /\ calls' = Append(calls, [op |-> "AssignPermissionsToRole", arg |-> loc.role.Id,
                                    ids |-> permissionIds, res |-> out.r.err])
         /\ remote' = out.remote
         /\ IF Failed(out.r)
            THEN /\ diags' = AddError(diags, "Client Error", Sprintf("Unable to create role, got error: %s", <<"err">>))
                 /\ state' = state
            ELSE /\ diags' = diags
                 /\ state' = StateOf(rolePermissionUpdateState(loc.role.Id, loc.role.Name, loc.permissions))
    /\ pc' = "done"
    /\ UNCHANGED <<handler, plan, prior, loc>>

(***************************************************************************)
(* The states Create and Update start from: a plan, for Update the prior   *)
(* state, and what the remote service holds.                               *)
(***************************************************************************)
AllPermissions(idx) == ListedIn(SortedSeq(idx), PermissionOf)
DatabaseTable == <<"main", "staging">>
DatabaseOf(i) == [Id |-> 60 + i, DatabaseName |-> DatabaseTable[i]]
NoDataset == [exists |-> FALSE]
StoredDataset ==
    [exists |-> TRUE, Id |-> 5, TableName |-> "sales", Database |-> DatabaseOf(1),
     Sql |-> NNull, Description |-> NNull, CacheTimeout |-> NNull, FilterSelectEnabled |-> NNull,
     FetchValuesPredicate |-> NNull, AlwaysFilterMainDttm |-> NNull, NormalizeColumns |-> NNull,
     IsManagedExternally |-> FALSE, Extra |-> NNull, Columns |-> <<>>, Metrics |-> <<>>]
StoredTag(name) == [Id |-> 501, Name |-> name, Description |-> NNull]

RemoteOf(ridx, gidx, pidx, users, tags, dataset, dbidx) ==
    [roles |-> RolesOf(ridx),
     groups |-> GroupsOf(gidx, NNull, <<>>),
     users |-> users,
     permissions |-> AllPermissions(pidx),
     rolePermissions |-> [id \in {100 + i : i \in ridx} |-> <<>>],
     tags |-> tags,
     dataset |-> dataset,
     databases |-> ListedIn(SortedSeq(dbidx), DatabaseOf)]
StoredUsers == {<<>>, <<UserOf(NVal(TRUE), <<>>, <<>>)>>}

PlannedRoleNames ==
    {Null, Val(<<>>), Val(ValuesOf(<<"Admin">>)), Val(ValuesOf(<<"Alpha", "Admin">>)),
     Val(ValuesOf(<<"Ghost", "Admin", "Phantom">>))}
PlannedGroupNames ==
    {Null, Val(<<>>), Val(ValuesOf(<<"analysts">>)), Val(ValuesOf(<<"nobody", "analysts", "nowhere">>))}
PlannedPermissions ==
    {Null, Val(<<>>),
     Val(<<PermissionObject(Val("can_read"), Val("Chart"))>>),
     Val(<<PermissionObject(Val("can_write"), Val("Chart")), PermissionObject(Val("can_read"), Val("Chart"))>>),
     Val(<<PermissionObject(Val("can_read"), Val("Ghost")), PermissionObject(Val("can_read"), Val("Chart")),
           PermissionObject(Val("can_grant"), Val("Chart"))>>),
     Val(<<PermissionObject(Val("can_read"), Null)>>)}

PlannedUser(id, roleNames, groupNames, password) ==
    [Id |-> id, Username |-> Val("alice"), Active |-> Val(TRUE), Password |-> password,
     RoleNames |-> roleNames, GroupNames |-> groupNames]

PlannedDataset(id, bootstrap, description, certification) ==
    [Id |-> id, DatabaseId |-> Unknown, DatabaseName |-> Val("main"),
     BootstrapDatabaseId |-> Unknown, BootstrapDatabaseName |-> bootstrap,
     Catalog |-> Null, Schema |-> Null, TableName |-> Val("sales"), Sql |-> Null,
     Description |-> description, CacheTimeout |-> Null, IsManagedExternally |-> Val(FALSE),
     FilterSelectEnabled |-> Null, FetchValuesPredicate |-> Null, AlwaysFilterMainDttm |-> Null,
     NormalizeColumns |-> Null, OwnerIds |-> Null,
     CertifiedBy |-> certification.CertifiedBy,
     CertificationDetails |-> certification.CertificationDetails]

InitWriteOf(res, op, planned, before, service) ==
    /\ handler = [res |-> res, op |-> op]
    /\ plan = planned
    /\ prior = before
    /\ remote = service

InitWrite ==
    /\ pc = "start"
    /\ loc = [none |-> TRUE]
    /\ calls = <<>>
    /\ diags = <<>>
    /\ \/ \E ridx \in SUBSET (1..MaxRoles), gidx \in SUBSET (1..MaxGroups), users \in StoredUsers,
             roleNames \in PlannedRoleNames, groupNames \in PlannedGroupNames :
            \/ InitWriteOf("user", "Create", PlannedUser(Unknown, roleNames, groupNames, Val("secret")),
                           StateAbsent, RemoteOf(ridx, gidx, {}, users, <<>>, NoDataset, {}))
            \/ InitWriteOf("user", "Update", PlannedUser(Val(301), roleNames, groupNames, Null),
                           StateOf(PriorOf("user")), RemoteOf(ridx, gidx, {}, users, <<>>, NoDataset, {}))
       \/ \E ridx \in SUBSET (1..MaxRoles), name \in {"Admin", "Ghost"} :
            InitWriteOf("role", "Create", [Id |-> Unknown, Name |-> Val(name)],
                        StateAbsent, RemoteOf(ridx, {}, {}, <<>>, <<>>, NoDataset, {}))
       \/ \E gidx \in SUBSET (1..MaxGroups), name \in {"analysts", "nobody"}, label \in {Null, Val("team")} :
            InitWriteOf("group", "Create", [Id |-> Unknown, Name |-> Val(name), Label |-> label],
                        StateAbsent, RemoteOf({}, gidx, {}, <<>>, <<>>, NoDataset, {}))
       \/ \E tags \in {<<>>, <<StoredTag("prod")>>, <<StoredTag("dev")>>},
             description \in {Null, Val("production")} :
            InitWriteOf("tag", "Create", [Id |-> Unknown, Name |-> Val("prod"), Description |-> description],
                        StateAbsent, RemoteOf({}, {}, {}, <<>>, tags, NoDataset, {}))
       \/ \E ridx \in SUBSET (1..MaxRoles), name \in {"Admin", "Ghost"} :
            InitWriteOf("role", "Update", [Id |-> Val(101), Name |-> Val(name)],
                        StateOf(PriorOf("role")), RemoteOf(ridx, {}, {}, <<>>, <<>>, NoDataset, {}))
       \/ \E gidx \in SUBSET (1..MaxGroups), name \in {"analysts", "nobody"},
             label \in {Null, Val("team")}, held \in {NNull, NVal("team")} :
            InitWriteOf("group", "Update", [Id |-> Val(201), Name |-> Val(name), Label |-> label],
                        StateOf(groupUpdateState(GroupOf(1, held, <<>>))),
                        [RemoteOf({}, gidx, {}, <<>>, <<>>, NoDataset, {}) EXCEPT
                            !.groups = GroupsOf(gidx, held, <<>>)])
       \/ \E tags \in {<<>>, <<StoredTag("prod")>>, <<[StoredTag("prod") EXCEPT !.Description = NVal("live")]>>},
             description \in {Null, Val("production"), Val("")} :
            InitWriteOf("tag", "Update", [Id |-> Val(501), Name |-> Val("prod"), Description |-> description],
                        StateOf(tagUpdateState(IF tags = <<>> THEN StoredTag("prod") ELSE tags[1])),
                        RemoteOf({}, {}, {}, <<>>, tags, NoDataset, {}))
       \/ \E dataset \in {NoDataset, StoredDataset}, dbidx \in SUBSET (1..2),
             bootstrap \in {Null, Val("staging")}, description \in {Null, Val("daily sales")},
             certification \in Certifications :
            \/ InitWriteOf("dataset", "Create", PlannedDataset(Unknown, bootstrap, description, certification),
                           StateAbsent, RemoteOf({}, {}, {}, <<>>, <<>>, dataset, dbidx))
            \/ InitWriteOf("dataset", "Update", PlannedDataset(Val(5), bootstrap, description, certification),
                           StateOf(PlannedDataset(Val(5), bootstrap, Null, [CertifiedBy |-> Null,
                                                                           CertificationDetails |-> Null])),
                           RemoteOf({}, {}, {}, <<>>, <<>>, dataset, dbidx))
       \/ \E ridx \in SUBSET (1..MaxRoles), gidx \in SUBSET (1..MaxGroups),
             roleNames \in PlannedRoleNames \cup {Val(<<Val("Admin"), Null>>)} :
            \/ InitWriteOf("group_role_binding", "Create",
                           [GroupId |-> Unknown, GroupName |-> Val("analysts"), RoleNames |-> roleNames],
                           StateAbsent, RemoteOf(ridx, gidx, {}, <<>>, <<>>, NoDataset, {}))
            \/ InitWriteOf("group_role_binding", "Update",
                           [GroupId |-> Val(201), GroupName |-> Val("analysts"), RoleNames |-> roleNames],
                           StateOf(PriorOf("group_role_binding")),
                           RemoteOf(ridx, gidx, {}, <<>>, <<>>, NoDataset, {}))
       \/ \E ridx \in SUBSET (1..MaxRoles), pidx \in SUBSET (1..MaxPermissions),
             permissions \in PlannedPermissions :
            \/ InitWriteOf("role_permissions", "Create",
                           [RoleId |-> Unknown, RoleName |-> Val("Admin"), Permissions |-> permissions],
                           StateAbsent, RemoteOf(ridx, {}, pidx, <<>>, <<>>, NoDataset, {}))
            \/ InitWriteOf("role_permissions", "Update",
                           [RoleId |-> Val(101), RoleName |-> Val("Admin"), Permissions |-> permissions],
                           StateOf(PriorOf("role_permissions")),
                           RemoteOf(ridx, {}, pidx, <<>>, <<>>, NoDataset, {}))
    /\ state = prior

NextWrite ==
    \/ RoleUpdate
    \/ GroupUpdate
    \/ TagUpdate
    \/ UserCreateListRoles
    \/ UserCreateListGroups
    \/ UserCreateFindUser
    \/ UserCreateCreateUser
    \/ UserUpdateListGroups
    \/ UserUpdateListRoles
    \/ UserUpdateUpdateUser
    \/ RoleCreateFindRole
    \/ RoleCreateCreateRole
    \/ GroupCreateFindGroup
    \/ GroupCreateCreateGroup
    \/ TagCreateFindTag
    \/ TagCreateCreateTag
    \/ DatasetCreateFindDatabase
    \/ DatasetCreateFindDataset
    \/ DatasetCreateCreateDataset
    \/ DatasetCreateUpdateDataset
    \/ DatasetUpdate
    \/ GroupRoleBindingCreateListRoles
    \/ GroupRoleBindingCreateFindGroup
    \/ GroupRoleBindingCreateAssignRolesToGroup
    \/ GroupRoleBindingCreateReadBack
    \/ GroupRoleBindingUpdateListRoles
    \/ GroupRoleBindingUpdateAssignRolesToGroup
    \/ GroupRoleBindingUpdateReadBack
    \/ RolePermissionsCreateFindRole
    \/ RolePermissionsCreateListPermissions
    \/ RolePermissionsCreateAssignPermissionsToRole
    \/ RolePermissionsUpdateFindRole
    \/ RolePermissionsUpdateListPermissions
    \/ RolePermissionsUpdateAssignPermissionsToRole

SpecWrite == InitWrite /\ [][NextWrite]_vars

(***************************************************************************)
(* The certification round trip of a column, a metric and a dataset model: *)
(* toExtra packs the two fields, the text travels as the extra field of    *)
(* the wire entity, and parseCertification reads it into a fresh model.    *)
(* The three models share the code of toExtra and parseCertification.      *)
(***************************************************************************)
CertifiedModels == {"dataset_column", "dataset_metric", "dataset"}
CertificationTexts == {Null, Val(""), Val("alice"), Val("reviewed")}
\* the zero value of a model: every types.String is null
FreshCertification == [CertifiedBy |-> Null, CertificationDetails |-> Null]

\* the extra field of the entity read back: the packed text, or, when the
\* handler sent none, an explicit null or a missing field
ExtraOnWire(extra) ==
    IF extra.text = "empty" THEN {NVal(extra), NNull, NUnset} ELSE {NVal(extra)}

CertificationToExtra ==
    /\ Running(handler.res, "certification", "start")
    /\ handler.res \in CertifiedModels
    /\ loc' = [extra |-> toExtra(plan), wire |-> NUnset, parsed |-> FreshCertification]
    /\ pc' = "packed"
    /\ UNCHANGED <<handler, plan, prior, remote, calls, diags, state>>

\* MustGet of a field that is not specified panics
CertificationParseCertification ==
    /\ Running(handler.res, "certification", "packed")
    /\ handler.res \in CertifiedModels
    /\ \E extra \in ExtraOnWire(loc.extra) :
         IF ~NIsNull(extra) /\ ~NIsSpecified(extra)
         THEN /\ loc' = [loc EXCEPT !.wire = extra]
              /\ pc' = "panic"
         ELSE /\ loc' = [loc EXCEPT !.wire = extra,
                                    !.parsed = parseCertification(FreshCertification, extra)]
              /\ pc' = "done"
    /\ UNCHANGED <<handler, plan, prior, remote, calls, diags, state>>

InitCertification ==
    /\ pc = "start"
    /\ loc = [none |-> TRUE]
    /\ calls = <<>>
    /\ diags = <<>>
    /\ remote = [none |-> TRUE]
    /\ prior = StateAbsent
    /\ state = StateAbsent
    /\ \E res \in CertifiedModels : handler = [res |-> res, op |-> "certification"]
    /\ \E by \in CertificationTexts, details \in CertificationTexts :
         plan = [CertifiedBy |-> by, CertificationDetails |-> details]

NextCertification ==
    \/ CertificationToExtra
    \/ CertificationParseCertification

SpecCertification == InitCertification /\ [][NextCertification]_vars

(***************************************************************************)
(* Dataset folders, wire to config: model_dataset_folder (mapToFolders,    *)
(* updateState).  The folders of the response are JSON: a node's uuid is a *)
(* text or is missing, its description and children are a value, an        *)
(* explicit null or missing.  mapToFolders decodes them into client.Folder *)
(* values, where a missing uuid is the nil UUID.                           *)
(***************************************************************************)
decodeUuid(uuid) ==
    IF NIsSpecified(uuid) /\ ~NIsNull(uuid) THEN uuidParse(MustGet(uuid)) ELSE Ok([uuid |-> ZeroUuidText])

RECURSIVE DecodeFails(_)
DecodeFails(node) ==
    \/ Failed(decodeUuid(node.Uuid))
    \/ /\ node.Children.n = "value"
       /\ \E i \in 1..Len(node.Children.v) : DecodeFails(node.Children.v[i])

RECURSIVE DecodeFolder(_)
DecodeFolder(node) ==
    LET children == node.Children IN
    [node EXCEPT !.Uuid = decodeUuid(node.Uuid).v,
                 !.Children = IF children.n = "value"
                              THEN NVal([i \in 1..Len(children.v) |-> DecodeFolder(children.v[i])])
                              ELSE children]

mapToFolders(m) ==
    IF \E i \in 1..Len(m) : DecodeFails(m[i]) THEN OtherError
    ELSE Ok([i \in 1..Len(m) |-> DecodeFolder(m[i])])

\* what a sequence of steps ends in: the first outcome that is not "none"
FirstOutcome(outcomes) ==
    IF \A i \in 1..Len(outcomes) : outcomes[i] = "none" THEN "none"
    ELSE outcomes[MinOf({i \in 1..Len(outcomes) : outcomes[i] # "none"})]

modelDescription(description) ==
    IF NIsSpecified(description) /\ MustGet(description) # "" THEN Val(MustGet(description)) ELSE Null

\* (variant) a child is taken whatever its uuid
childOutcomeAnyUuid(child) ==
    IF NIsNull(child.Description) THEN "panic" ELSE "none"

\* one child of a root folder: MustGet of an explicit null description
\* panics; the nil UUID is an error; the type of the child is not looked at
childOutcome(child) ==
    IF NIsNull(child.Description) THEN "panic"
    ELSE IF uuidString(child.Uuid) = "" \/ uuidString(child.Uuid) = ZeroUuidText THEN "other"
    ELSE "none"

childUpdateState(child) ==
    [Name |-> Val(child.Name), Type |-> Val(child.Type),
     Description |-> modelDescription(child.Description),
     Uuid |-> Val(uuidString(child.Uuid))]

\* datasetFolderModel.updateState: the children of a root folder
childrenOf(d) == IF NIsNull(d.Children) THEN <<>> ELSE MustGet(d.Children)

folderOutcome(d) ==
    IF NIsNull(d.Description) THEN "panic"
    ELSE IF d.Type # "folder" THEN "other"
    ELSE IF ~NIsSpecified(d.Children) THEN "panic"
    ELSE FirstOutcome([j \in 1..Len(childrenOf(d)) |-> childOutcome(childrenOf(d)[j])])

folderUpdateState(d) ==
    [Name |-> Val(d.Name), Type |-> Val(d.Type),
     Description |-> modelDescription(d.Description),
     Uuid |-> Val(uuidString(d.Uuid)),
     Children |-> [j \in 1..Len(childrenOf(d)) |-> childUpdateState(childrenOf(d)[j])]]

\* datasetFolderBaseModel.updateState: the model it leaves, and how it ends
foldersUpdateState(model, d) ==
    LET base == [model EXCEPT !.DatasetId = Val(d.Id), !.DatasetName = Val(d.TableName)] IN
    IF NIsNull(d.Folders) THEN [err |-> "none", model |-> base]
    ELSE IF ~NIsSpecified(d.Folders) THEN [err |-> "panic", model |-> base]
    ELSE LET typedFolders == mapToFolders(MustGet(d.Folders)) IN
         IF Failed(typedFolders) THEN [err |-> "other", model |-> base]
         ELSE LET outcome == FirstOutcome([i \in 1..Len(typedFolders.v) |-> folderOutcome(typedFolders.v[i])]) IN
              IF outcome # "none" THEN [err |-> outcome, model |-> base]
              ELSE [err |-> "none",
                    model |-> [base EXCEPT !.Folders =
                                  [i \in 1..Len(typedFolders.v) |-> folderUpdateState(typedFolders.v[i])]]]

(***************************************************************************)
(* updateState of a dataset-folder model run on the folders of a response. *)
(***************************************************************************)
MaxWireFolders == 2
MaxWireChildren == 2

WireNode(name, type, description, uuid, children) ==
    [Name |-> name, Type |-> type, Description |-> description, Uuid |-> uuid, Children |-> children]
WireGrandchild == WireNode("COL2", "column", NUnset, NVal("u2"), NVal(<<>>))
WireChildNodes ==
    {WireNode("COL1", "column", NUnset, NVal("u1"), NVal(<<>>)),
     WireNode("METRIC1", "metric", NVal("d"), NVal("U9"), NVal(<<>>)),
     WireNode("COL2", "column", NUnset, NUnset, NVal(<<>>)),
     WireNode("COL1", "column", NVal(""), NVal(ZeroUuidText), NVal(<<>>)),
     WireNode("inner", "folder", NUnset, NVal("u8"), NVal(<<>>)),
     WireNode("inner", "folder", NUnset, NVal("u8"), NVal(<<WireGrandchild>>)),
     WireNode("COL1", "column", NNull, NVal("u1"), NVal(<<>>))}
WireChildLists(maxChildren) == UNION {[1..n -> WireChildNodes] : n \in 0..maxChildren}
WireRootNodes(maxChildren) ==
    {WireNode("test_folder", type, du[1], du[2], NVal(children)) :
        type \in {"folder", "column"},
        du \in {<<NUnset, NVal("u8")>>, <<NVal("d"), NUnset>>},
        children \in WireChildLists(maxChildren)}
    \cup {WireNode("test_folder", "folder", NUnset, NVal("u8"), NNull),
          WireNode("test_folder", "folder", NUnset, NVal("u8"), NUnset),
          WireNode("test_folder", "folder", NNull, NVal("u8"), NVal(<<>>))}
WireFolders(maxFolders, maxChildren) ==
    {NNull, NUnset}
        \cup {NVal(m) : m \in UNION {[1..n -> WireRootNodes(maxChildren)] : n \in 0..maxFolders}}

\* the folders a model holds before the call
HeldFolders ==
    {<<>>,
     <<[Name |-> Val("old_folder"), Type |-> Val("folder"), Description |-> Null, Uuid |-> Val("u8"),
        Children |-> <<[Name |-> Val("COL1"), Type |-> Val("column"),
                        Description |-> Null, Uuid |-> Val("u1")]>>]>>}

FoldersUpdateState ==
    /\ Running("dataset_folder", "updateState", "start")
    /\ LET r == foldersUpdateState(prior.v, loc.dataset) IN
       /\ loc' = [loc EXCEPT !.model = r.model]
       /\ pc' = IF r.err = "none" THEN "done" ELSE IF r.err = "panic" THEN "panic" ELSE "failed"
    /\ UNCHANGED <<handler, plan, prior, remote, calls, diags, state>>

InitUpdateState ==
    /\ handler = [res |-> "dataset_folder", op |-> "updateState"]
    /\ pc = "start"
    /\ calls = <<>>
    /\ diags = <<>>
    /\ plan = [none |-> TRUE]
    /\ remote = [none |-> TRUE]
    /\ \E held \in HeldFolders :
         /\ prior = StateOf([DatasetId |-> Val(5), DatasetName |-> Val("sales"), Folders |-> held])
         /\ state = prior
    /\ \E folders \in WireFolders(MaxWireFolders, MaxWireChildren) :
         loc = [dataset |-> [Id |-> 5, TableName |-> "sales", Folders |-> folders],
                model |-> [none |-> TRUE]]

NextUpdateState == FoldersUpdateState

SpecUpdateState == InitUpdateState /\ [][NextUpdateState]_vars

(***************************************************************************)
(* Dataset folder resource: Create and Read; dataset resource: Read.  A    *)
(* Read that follows a Create is handed the state Create persisted.        *)
(***************************************************************************)
FolderCreateFindDataset ==
    /\ Running("dataset_folder", "Create", "start")
    /\ \E fault \in BOOLEAN :
         LET r == FindDataset(ValueString(plan.DatasetName), fault) IN
         /\ calls' = Call("FindDataset", ValueString(plan.DatasetName), r)
         /\ IF Failed(r)
            THEN /\ diags' = AddError(diags, "Client Error", "Unable to find dataset")
                 /\ pc' = "done"
                 /\ loc' = loc
            ELSE /\ diags' = diags
                 /\ pc' = "found"
                 /\ loc' = [_dataset |-> r.v]
    /\ UNCHANGED <<handler, plan, prior, remote, state>>

\* a failed GetDataset leaves dataset nil and the message reads dataset.Id
FolderCreateGetDataset ==
    /\ Running("dataset_folder", "Create", "found")
    /\ \E fault \in BOOLEAN :
         LET r == GetDataset(loc._dataset.Id, fault) IN
         /\ calls' = Call("GetDataset", loc._dataset.Id, r)
         /\ IF Failed(r)
            THEN pc' = "panic" /\ loc' = loc
            ELSE pc' = "got" /\ loc' = [dataset |-> r.v]
    /\ UNCHANGED <<handler, plan, prior, remote, diags, state>>

FolderCreateUpdateDataset ==
    /\ Running("dataset_folder", "Create", "got")
    /\ IF resolveColumnsPanics(plan.Folders, loc.dataset)
       THEN pc' = "panic" /\ UNCHANGED <<calls, diags, remote, state>>
       ELSE
       \E seed \in {0, 1}, fault \in BOOLEAN :
         LET folders == toFolders(resolveColumns(plan.Folders, loc.dataset), seed) IN
         IF Failed(folders)
         THEN /\ diags' = AddError(diags, "Folder Conversion Error", "Unable to convert folders")
              /\ pc' = "done"
              /\ UNCHANGED <<calls, remote, state>>
         ELSE
         LET putData == [Folders |-> folders.v]
             r == UpdateDataset(loc.dataset.Id, putData, fault)
             data == IF Failed(r) THEN [err |-> "other"]
                     ELSE foldersUpdateState([plan EXCEPT !.Folders = resolveColumns(plan.Folders, loc.dataset)], r.v)
         IN
         /\ calls' = Append(calls, [op |-> "UpdateDataset", arg |-> loc.dataset.Id,
                                    put |-> putData, res |-> r.err])
         /\ remote' = IF Failed(r) THEN remote ELSE [remote EXCEPT !.dataset = r.v]
         /\ IF Failed(r)
            THEN /\ diags' = AddError(diags, "Client Error", "Unable to update dataset")
                 /\ pc' = "done" /\ state' = state
            ELSE IF data.err = "panic"
            THEN pc' = "panic" /\ UNCHANGED <<diags, state>>
            ELSE IF data.err # "none"
            THEN /\ diags' = AddError(diags, "State Update Error", "Unable to update state for datasetfolder")
                 /\ pc' = "done" /\ state' = state
            ELSE /\ state' = StateOf(data.model)
                 /\ pc' = "done" /\ diags' = diags
    /\ UNCHANGED <<handler, plan, prior, loc>>

\* the refresh that follows a Create: Read is handed the persisted state
FolderReadAfterCreate ==
    /\ Running("dataset_folder", "Create", "done")
    /\ ~HasError(diags)
    /\ state # StateAbsent
    /\ handler' = [res |-> "dataset_folder", op |-> "Read"]
    /\ prior' = state
    /\ pc' = "start"
    /\ loc' = [created |-> state.v]
    /\ UNCHANGED <<plan, remote, calls, diags, state>>

FolderRead ==
    /\ Running("dataset_folder", "Read", "start")
    /\ \E fault \in BOOLEAN :
         LET t == GetDataset(ValueInt64(prior.v.DatasetId), fault) IN
         /\ calls' = Call("GetDataset", ValueInt64(prior.v.DatasetId), t)
         /\ IF IsNotFound(t)
            THEN /\ state' = StateAbsent
                 /\ pc' = "done" /\ diags' = diags
            ELSE IF Failed(t)
            THEN /\ diags' = AddError(diags, "Client Error", "Unable to read datasetfolder")
                 /\ pc' = "done" /\ state' = state
            ELSE LET data == foldersUpdateState(prior.v, t.v) IN
                 IF data.err = "panic"
                 THEN pc' = "panic" /\ UNCHANGED <<diags, state>>
                 ELSE IF data.err # "none"
                 THEN /\ diags' = AddError(diags, "State Update Error",
                                           "Unable to update state for datasetfolder")
                      /\ pc' = "done" /\ state' = state
                 ELSE /\ state' = StateOf(data.model)
                      /\ pc' = "done" /\ diags' = diags
    /\ UNCHANGED <<handler, plan, prior, remote, loc>>

DatasetRead ==
    /\ Running("dataset", "Read", "start")
    /\ \E fault \in BOOLEAN :
         LET t == GetDataset(ValueInt64(prior.v.Id), fault) IN
         /\ calls' = Call("GetDataset", ValueInt64(prior.v.Id), t)
         /\ IF IsNotFound(t)
            THEN /\ state' = StateAbsent
                 /\ diags' = diags
            ELSE IF Failed(t)
            THEN /\ diags' = AddError(diags, "Client Error", "Unable to read Dataset")
                 /\ state' = state
            ELSE /\ state' = StateOf(datasetUpdateState(prior.v, t.v))
                 /\ diags' = diags
    /\ pc' = "done"
    /\ UNCHANGED <<handler, plan, prior, remote, loc>>

\* the dataset of the service, with the columns, metrics and folders it holds
WithFields(r, s) == [f \in DOMAIN r \cup DOMAIN s |-> IF f \in DOMAIN s THEN s[f] ELSE r[f]]
DatasetHolding(col1Uuid, folders) ==
    WithFields(StoredDataset,
        [Columns |-> <<[ColumnName |-> "COL1", Uuid |-> col1Uuid],
                       [ColumnName |-> "COL2", Uuid |-> NVal([uuid |-> "u2"])]>>,
         Metrics |-> <<[MetricName |-> "METRIC1", Uuid |-> NVal([uuid |-> "u9"])]>>,
         Folders |-> folders])
StoredFolder(children) == WireNode("old_folder", "folder", NUnset, NVal("u8"), NVal(children))
StoredFolderLists ==
    {NNull, NVal(<<>>),
     NVal(<<StoredFolder(<<WireNode("COL1", "column", NUnset, NVal("u1"), NVal(<<>>))>>)>>)}

\* declared folders that pass the schema: roots of type folder with one or
\* more children of type column or metric, uuids computed
PlannedChildren ==
    {[Name |-> Val(k[1]), Type |-> Val(k[2]), Description |-> k[3], Uuid |-> Unknown] :
        k \in {<<"COL1", "column", Null>>, <<"COL2", "column", Val("d")>>, <<"COL1", "column", Val("")>>,
               <<"METRIC1", "metric", Null>>, <<"GHOST", "column", Null>>}}
PlannedChildLists(maxChildren) == UNION {[1..n -> PlannedChildren] : n \in 1..maxChildren}
PlannedFolder(i, children) ==
    [Name |-> Val(IF i = 1 THEN "test_folder" ELSE "folder" \o ToString(i)), Type |-> Val("folder"),
     Description |-> IF i = 1 THEN Null ELSE Val("d"), Uuid |-> Unknown, Children |-> children]
PlannedFolderLists(maxFolders, maxChildren) ==
    UNION {{[i \in 1..n |-> PlannedFolder(i, c[i])] : c \in [1..n -> PlannedChildLists(maxChildren)]} :
              n \in 1..maxFolders}

HeldDatasets ==
    {[PlannedDataset(Val(5), Null, description, certification) EXCEPT !.FetchValuesPredicate = predicate] :
        description \in {Null, Val("held")}, certification \in Certifications,
        predicate \in {Null, Val("x > 1")}}
ServedDatasets ==
    {[StoredDataset EXCEPT !.Extra = extra, !.FetchValuesPredicate = predicate, !.Description = description] :
        extra \in {NNull, NVal(toExtra(FreshCertification)),
                   NVal(toExtra([CertifiedBy |-> Val("bob"), CertificationDetails |-> Null]))},
        predicate \in {NNull, NVal(""), NVal("y > 2")},
        description \in {NNull, NVal("served")}}

InitRefresh ==
    /\ pc = "start"
    /\ loc = [none |-> TRUE]
    /\ calls = <<>>
    /\ diags = <<>>
    /\ \/ /\ handler = [res |-> "dataset_folder", op |-> "Create"]
          /\ \E folders \in PlannedFolderLists(MaxFolders, MaxChildren) :
               plan = [DatasetId |-> Unknown, DatasetName |-> Val("sales"), Folders |-> folders]
          /\ prior = StateAbsent
          /\ \E col1Uuid \in {NUnset, NVal([uuid |-> "u1"])}, stored \in StoredFolderLists :
               remote \in {[dataset |-> NoDataset], [dataset |-> DatasetHolding(col1Uuid, stored)]}
       \/ /\ handler = [res |-> "dataset_folder", op |-> "Read"]
          /\ plan = [none |-> TRUE]
          /\ \E held \in HeldFolders :
               prior = StateOf([DatasetId |-> Val(5), DatasetName |-> Val("sales"), Folders |-> held])
          /\ \E stored \in StoredFolderLists :
               remote \in {[dataset |-> NoDataset],
                           [dataset |-> DatasetHolding(NVal([uuid |-> "u1"]), stored)]}
       \/ /\ handler = [res |-> "dataset", op |-> "Read"]
          /\ plan = [none |-> TRUE]
          /\ \E held \in HeldDatasets : prior = StateOf(held)
          /\ \E served \in ServedDatasets :
               remote \in {[dataset |-> NoDataset], [dataset |-> served]}
    /\ state = prior

NextRefresh ==
    \/ FolderCreateFindDataset
    \/ FolderCreateGetDataset
    \/ FolderCreateUpdateDataset
    \/ FolderReadAfterCreate
    \/ FolderRead
    \/ DatasetRead

SpecRefresh == InitRefresh /\ [][NextRefresh]_vars

(***************************************************************************)
(* Delete.  The user resource deletes the remote user and falls back to    *)
(* deactivating it; the resources that manage a sub-collection of a parent *)
(* entity update the parent with the sub-collection emptied.  A Delete     *)
(* that ends without an error diagnostic leaves no state behind.           *)
(***************************************************************************)
AfterDelete(ds) == IF HasError(ds) THEN state ELSE StateAbsent

UserDeleteDeleteUserThenDeactivate ==
    /\ Running("user", "Delete", "start")
    /\ \E net \in NetList :
         LET out == DeleteUser(ValueInt64(prior.v.Id), net) IN
         /\ calls' = Call("DeleteUser", ValueInt64(prior.v.Id), out.r)
         /\ remote' = out.remote
         /\ diags' = diags /\ pc' = "deactivate" /\ state' = state
    /\ UNCHANGED <<handler, plan, prior, loc>>

UserDeleteDeleteUser ==
    /\ Running("user", "Delete", "start")
    /\ \E net \in NetList :
         LET out == DeleteUser(ValueInt64(prior.v.Id), net) IN
         /\ calls' = Call("DeleteUser", ValueInt64(prior.v.Id), out.r)
         /\ remote' = out.remote
         /\ IF Failed(out.r)
            THEN /\ diags' = AddWarning(diags, "Deletion Error",
                                        Sprintf("Unable to delete user with ID %d: %s",
                                                <<ValueInt64(prior.v.Id), "err">>))
                 /\ pc' = "deactivate"
                 /\ state' = state
            ELSE /\ diags' = diags
                 /\ pc' = "done"
                 /\ state' = AfterDelete(diags)
    /\ UNCHANGED <<handler, plan, prior, loc>>

UserDeleteDeactivate ==
    /\ Running("user", "Delete", "deactivate")
    /\ \E netPut \in NetGet, netGet \in NetGet :
         LET putData == [Active |-> FALSE, Groups |-> <<>>]
             out == UpdateUser(ValueInt64(prior.v.Id), putData, netPut, netGet)
         IN
         /\ calls' = Append(calls, [op |-> "UpdateUser", arg |-> ValueInt64(prior.v.Id),
                                    put |-> putData, res |-> out.r.err])
         /\ remote' = out.remote
         /\ diags' = IF Failed(out.r)
                     THEN AddError(diags, "Client Error",
                                   Sprintf("Unable to deactivate user with ID %d:, so deactivate user. error: %s",
                                           <<ValueInt64(prior.v.Id), "err">>))
                     ELSE diags
         /\ state' = AfterDelete(diags')
    /\ pc' = "done"
    /\ UNCHANGED <<handler, plan, prior, loc>>

\* the first step of Delete of a resource that manages a field of a dataset
DeleteFindDataset ==
    /\ pc = "start"
    /\ \E fault \in BOOLEAN :
         LET dataset == FindDataset(ValueString(prior.v.DatasetName), fault) IN
         /\ calls' = Call("FindDataset", ValueString(prior.v.DatasetName), dataset)
         /\ IF IsNotFound(dataset)
            THEN /\ state' = StateAbsent
                 /\ diags' = diags
                 /\ pc' = "done"
                 /\ loc' = loc
            ELSE IF Failed(dataset)
            THEN /\ diags' = AddError(diags, "Client Error",
                                      Sprintf("Unable to find dataset with name '%s': %s",
                                              <<ValueString(prior.v.DatasetName), "err">>))
                 /\ state' = state
                 /\ pc' = "done"
                 /\ loc' = loc
            ELSE /\ diags' = diags
                 /\ state' = state
                 /\ pc' = "found"
                 /\ loc' = [dataset |-> dataset.v]
    /\ UNCHANGED <<handler, plan, prior, remote>>

\* the second step: the dataset update that carries the field as an empty list
DeleteEmptyDataset(putData) ==
    /\ pc = "found"
    /\ \E fault \in BOOLEAN :
         LET g == UpdateDataset(loc.dataset.Id, putData, fault) IN
         /\ calls' = Append(calls, [op |-> "UpdateDataset", arg |-> loc.dataset.Id,
                                    put |-> putData, res |-> g.err])
         /\ remote' = IF Failed(g) THEN remote ELSE [remote EXCEPT !.dataset = g.v]
         /\ diags' = IF Failed(g)
                     THEN AddError(diags, "Client Error",
                                   Sprintf("Unable to update dataset with ID %d: %s", <<loc.dataset.Id, "err">>))
                     ELSE diags
         /\ state' = AfterDelete(diags')
    /\ pc' = "done"
    /\ UNCHANGED <<handler, plan, prior, loc>>

FolderDeleteFindDataset ==
    /\ handler = [res |-> "dataset_folder", op |-> "Delete"]
    /\ DeleteFindDataset
FolderDeleteUpdateDataset ==
    /\ handler = [res |-> "dataset_folder", op |-> "Delete"]
    /\ DeleteEmptyDataset([Folders |-> <<>>])
ColumnsDeleteFindDataset ==
    /\ handler = [res |-> "dataset_columns", op |-> "Delete"]
    /\ DeleteFindDataset
ColumnsDeleteUpdateDataset ==
    /\ handler = [res |-> "dataset_columns", op |-> "Delete"]
    /\ DeleteEmptyDataset([Columns |-> <<>>])
MetricsDeleteFindDataset ==
    /\ handler = [res |-> "dataset_metrics", op |-> "Delete"]
    /\ DeleteFindDataset
MetricsDeleteUpdateDataset ==
    /\ handler = [res |-> "dataset_metrics", op |-> "Delete"]
    /\ DeleteEmptyDataset([Metrics |-> <<>>])

RolePermissionsDeleteFindRole ==
    /\ Running("role_permissions", "Delete", "start")
    /\ \E net \in NetList :
         LET role == FindRole(ValueString(prior.v.RoleName), net) IN
         /\ calls' = Call("FindRole", ValueString(prior.v.RoleName), role)
         /\ IF Failed(role)
            THEN /\ diags' = AddError(diags, "Client Error",
                                      Sprintf("Unable to find role with name %s: %s",
                                              <<ValueString(prior.v.RoleName), "err">>))
                 /\ pc' = "done"
                 /\ loc' = loc
            ELSE /\ diags' = diags
                 /\ pc' = "found"
                 /\ loc' = [role |-> role.v]
    /\ UNCHANGED <<handler, plan, prior, remote, state>>

RolePermissionsDeleteAssign ==
    /\ Running("role_permissions", "Delete", "found")
    /\ \E net \in NetGet :
         LET out == AssignPermissionsToRole(loc.role.Id, <<>>, net) IN
         /\ calls' = Append(calls, [op |-> "AssignPermissionsToRole", arg |-> loc.role.Id,
                                    put |-> <<>>, res |-> out.r.err])
         /\ remote' = out.remote
         /\ diags' = IF Failed(out.r)
                     THEN AddError(diags, "Client Error",
                                   Sprintf("Unable to delete role with ID %d: %s", <<loc.role.Id, "err">>))
                     ELSE diags
         /\ state' = AfterDelete(diags')
    /\ pc' = "done"
    /\ UNCHANGED <<handler, plan, prior, loc>>

GroupRoleBindingDelete ==
    /\ Running("group_role_binding", "Delete", "start")
    /\ \E netPut \in NetGet, netGet \in NetGet :
         LET groupId == ValueInt64(prior.v.GroupId)
             out == AssignRolesToGroup(groupId, <<>>, netPut, netGet)
         IN
         /\ calls' = Append(calls, [op |-> "AssignRolesToGroup", arg |-> groupId,
                                    put |-> <<>>, res |-> out.r.err])
         /\ remote' = out.remote
         /\ diags' = IF Failed(out.r)
                     THEN AddError(diags, "Client Error",
                                   Sprintf("Unable to remove all roles from group ID %d: %s", <<groupId, "err">>))
                     ELSE diags
         /\ state' = AfterDelete(diags')
    /\ pc' = "done"
    /\ UNCHANGED <<handler, plan, prior, loc>>

DeletedDatasets ==
    {NoDataset, [StoredDataset EXCEPT !.TableName = "renamed"]} \cup
    {DatasetHolding(NVal([uuid |-> "u1"]), folders) : folders \in StoredFolderLists}

DeleteRequests ==
    /\ loc = [none |-> TRUE]
    /\ calls = <<>>
    /\ diags = <<>>
    /\ plan = [none |-> TRUE]
    /\ \/ /\ handler = [res |-> "user", op |-> "Delete"]
          /\ prior = StateOf(PriorOf("user"))
          /\ \E ridx \in SUBSET (1..MaxRoles), gidx \in SUBSET (1..MaxGroups), active \in {NVal(TRUE), NVal(FALSE)},
                held \in BOOLEAN, member \in BOOLEAN :
               remote = RemoteOf(ridx, gidx, {}, IF held THEN <<UserOf(active, RolesOf(ridx),
                                                                      IF member THEN GroupsOf(gidx, NNull, <<>>)
                                                                      ELSE <<>>)>>
                                                 ELSE <<>>,
                                 <<>>, NoDataset, {})
       \/ /\ \E res \in {"dataset_folder", "dataset_columns", "dataset_metrics"} :
                handler = [res |-> res, op |-> "Delete"]
          /\ prior = StateOf([DatasetId |-> Val(5), DatasetName |-> Val("sales")])
          /\ \E dataset \in DeletedDatasets : remote = [dataset |-> dataset]
       \/ /\ handler = [res |-> "role_permissions", op |-> "Delete"]
          /\ prior = StateOf(PriorOf("role_permissions"))
          /\ \E ridx \in SUBSET (1..MaxRoles), pidx \in SUBSET (1..MaxPermissions), granted \in BOOLEAN :
               remote = [RemoteOf(ridx, {}, pidx, <<>>, <<>>, NoDataset, {}) EXCEPT
                            !.rolePermissions = [id \in DOMAIN @ |->
                                                    IF granted THEN <<RolePermissionOf(1)>> ELSE <<>>]]
       \/ /\ handler = [res |-> "group_role_binding", op |-> "Delete"]
          /\ prior = StateOf(PriorOf("group_role_binding"))
          /\ \E ridx \in SUBSET (1..MaxRoles), gidx \in SUBSET (1..MaxGroups) :
               remote = [RemoteOf(ridx, gidx, {}, <<>>, <<>>, NoDataset, {}) EXCEPT
                            !.groups = GroupsOf(gidx, NNull, RolesOf(ridx))]
    /\ state = prior

InitDelete == pc = "start" /\ DeleteRequests

NextDelete ==
    \/ UserDeleteDeleteUser
    \/ UserDeleteDeactivate
    \/ FolderDeleteFindDataset
    \/ FolderDeleteUpdateDataset
    \/ ColumnsDeleteFindDataset
    \/ ColumnsDeleteUpdateDataset
    \/ MetricsDeleteFindDataset
    \/ MetricsDeleteUpdateDataset
    \/ RolePermissionsDeleteFindRole
    \/ RolePermissionsDeleteAssign
    \/ GroupRoleBindingDelete

SpecDelete == InitDelete /\ [][NextDelete]_vars

(***************************************************************************)
(* Delete from its first statement: the prior state is decoded into the    *)
(* handler's model, and a state that does not decode leaves the model at   *)
(* its zero value and an error diagnostic in the response.  From "start"   *)
(* on, prior holds the decoded model.                                      *)
(***************************************************************************)
ZeroModel(model) == [f \in DOMAIN model |-> Null]

DeleteDecodeState ==
    /\ handler.op = "Delete"
    /\ pc = "invoked"
    /\ \E decoded \in BOOLEAN :
         IF decoded
         THEN UNCHANGED <<prior, diags>>
         ELSE /\ prior' = StateOf(ZeroModel(prior.v))
              /\ diags' = AddError(diags, "Value Conversion Error", "req.State.Get")
    /\ pc' = "start"
    /\ UNCHANGED <<handler, plan, remote, loc, calls, state>>

\* DELETE answered 200
DeleteGroup(groupID, net) ==
    LET res == IF HasId(remote.groups, groupID) THEN Serve(net, 200, <<>>) ELSE Serve(net, 404, <<>>) IN
    IF res.transport = "error" THEN Outcome(OtherError, remote)
    ELSE IF res.status # 200 THEN Outcome(OtherError, remote)
    ELSE Outcome(Ok(<<>>), [remote EXCEPT !.groups = SelectSeq(@, LAMBDA g : g.Id # groupID)])

GroupDelete ==
    /\ Running("group", "Delete", "start")
    /\ \E net \in NetList :
         LET out == DeleteGroup(ValueInt64(prior.v.Id), net) IN
         /\ calls' = Call("DeleteGroup", ValueInt64(prior.v.Id), out.r)
         /\ remote' = out.remote
         /\ diags' = IF Failed(out.r)
                     THEN AddError(diags, "Client Error",
                                   Sprintf("Unable to delete group with ID %d: %s",
                                           <<ValueInt64(prior.v.Id), "err">>))
                     ELSE diags
         /\ state' = AfterDelete(diags')
    /\ pc' = "done"
    /\ UNCHANGED <<handler, plan, prior, loc>>

InitDecode ==
    /\ pc = "invoked"
    /\ \/ DeleteRequests
       \/ /\ loc = [none |-> TRUE]
          /\ calls = <<>>
          /\ diags = <<>>
          /\ plan = [none |-> TRUE]
          /\ handler = [res |-> "group", op |-> "Delete"]
          /\ prior = StateOf(PriorOf("group"))
          /\ state = prior
          /\ \E ridx \in SUBSET (1..MaxRoles), gidx \in SUBSET (1..MaxGroups) :
               remote = RemoteOf(ridx, gidx, {}, <<>>, <<>>, NoDataset, {})

NextDecode ==
    \/ DeleteDecodeState
    \/ GroupDelete
    \/ NextDelete

SpecDecode == InitDecode /\ [][NextDecode]_vars

(***************************************************************************)
(* Role permissions resource: ValidateConfig.  The elements of the         *)
(* permissions list are visited in order with a map from the key of an     *)
(* element, permission_name + "_" + view_menu_name, to the index at which  *)
(* the key was first seen.  List indices count from 0.                     *)
(***************************************************************************)
AddAttributeError(ds, path, summary, detail) ==
    Append(ds, [sev |-> "error", path |-> path, summary |-> summary, detail |-> detail])
IsUnknown(v) == v = Unknown
permissionKey(pn, vm) == ValueString(pn) \o "_" \o ValueString(vm)

RECURSIVE validateElems(_, _, _, _)
validateElems(elems, i, seen, ds) ==
    IF i > Len(elems) THEN ds
    ELSE LET pn == elems[i].v.permission_name
             vm == elems[i].v.view_menu_name
         IN
         IF IsNull(pn) \/ IsUnknown(pn) \/ IsNull(vm) \/ IsUnknown(vm)
         THEN validateElems(elems, i + 1, seen,
                            AddAttributeError(ds, <<"permissions", i - 1>>,
                                              "Permission is not fully specified",
                                              "permission_name and view_menu_name must be set."))
         ELSE LET key == permissionKey(pn, vm) IN
              IF key \in DOMAIN seen
              THEN validateElems(elems, i + 1, seen,
                                 AddAttributeError(ds, <<"permissions", i - 1>>,
                                     "Duplicate permission",
                                     Sprintf("Duplicate permission %q. It was already specified at permissions[%d].",
                                             <<key, seen[key]>>)))
              ELSE validateElems(elems, i + 1,
                                 [k \in DOMAIN seen \cup {key} |-> IF k = key THEN i - 1 ELSE seen[k]],
                                 ds)

ValidateConfig ==
    /\ Running("role_permissions", "ValidateConfig", "start")
    /\ diags' = IF IsNull(plan.Permissions) \/ IsUnknown(plan.Permissions)
                THEN diags
                ELSE validateElems(plan.Permissions.v, 1, <<>>, diags)
    /\ pc' = "done"
    /\ UNCHANGED <<handler, plan, prior, remote, state, loc, calls>>

MaxPermissionList == 3
ConfiguredNames == {Null, Unknown, Val("can"), Val("can_read")}
ConfiguredViewMenus == {Null, Val("Chart"), Val("read_Chart")}
ConfiguredElements == {PermissionObject(pn, vm) : pn \in ConfiguredNames, vm \in ConfiguredViewMenus}
ConfiguredPermissions(maxLen) ==
    {Null, Unknown} \cup {Val(l) : l \in UNION {[1..n -> ConfiguredElements] : n \in 0..maxLen}}

InitValidate ==
    /\ handler = [res |-> "role_permissions", op |-> "ValidateConfig"]
    /\ pc = "start"
    /\ \E permissions \in ConfiguredPermissions(MaxPermissionList) :
         plan = [RoleId |-> Unknown, RoleName |-> Val("Admin"), Permissions |-> permissions]
    /\ prior = StateAbsent
    /\ state = StateAbsent
    /\ remote = [none |-> TRUE]
    /\ loc = [none |-> TRUE]
    /\ calls = <<>>
    /\ diags = <<>>

NextValidate == ValidateConfig

SpecValidate == InitValidate /\ [][NextValidate]_vars

(***************************************************************************)
(* The paginated listings of the client wrapper, one loop iteration per    *)
(* step.  The page size is the one the provider was configured with; the   *)
(* service answers page k of size p with the items k*p+1 .. (k+1)*p of the *)
(* collection.  pageNumber is a machine integer, modelled IntBits wide.    *)
(***************************************************************************)
MaxItems == 4
MaxPageSize == 3
IntBits == 3
Wrap(n) == n % (2 ^ IntBits)

PageOfSize(items, pageNumber, size) ==
    SubSeq(items, pageNumber * size + 1, MinOf({(pageNumber + 1) * size, Len(items)}))
\* one request of _ListX: transport error, status other than 200, or the page
ListPageOfSize(items, pageNumber, size, net) ==
    LET res == Serve(net, 200, PageOfSize(items, pageNumber, size)) IN
    IF res.transport = "error" THEN OtherError
    ELSE IF res.status # 200 THEN OtherError
    ELSE Ok(res.body)

\* (variant) an iteration that tests the length of the page before appending it
ListIterationDropsLastPage(emptyEnds) ==
    /\ pc = "listing"
    /\ \E net \in NetGet :
         LET page == ListPageOfSize(loc.items, loc.pageNumber, loc.pageSize, net) IN
         IF Failed(page)
         THEN /\ pc' = "failed"
              /\ loc' = [loc EXCEPT !.requested = loc.pageNumber, !.result = OtherError]
         ELSE LET all == loc.all \o page.v IN
              IF (IF emptyEnds THEN Len(page.v) = 0 ELSE Len(page.v) < loc.pageSize)
              THEN /\ pc' = "done"
                   /\ loc' = [loc EXCEPT !.requested = loc.pageNumber, !.result = Ok(loc.all)]
              ELSE /\ pc' = "listing"
                   /\ loc' = [loc EXCEPT !.requested = loc.pageNumber, !.all = all,
                                         !.pageNumber = Wrap(loc.pageNumber + 1)]
    /\ UNCHANGED <<handler, plan, prior, remote, state, calls, diags>>

\* one iteration of the loop of a listing; emptyEnds tells whether the loop
\* ends at an empty page (permissions) or at a page shorter than the page size
ListIteration(emptyEnds) ==
    /\ pc = "listing"
    /\ \E net \in NetGet :
         LET page == ListPageOfSize(loc.items, loc.pageNumber, loc.pageSize, net) IN
         IF Failed(page)
         THEN /\ pc' = "failed"
              /\ loc' = [loc EXCEPT !.requested = loc.pageNumber, !.result = OtherError]
         ELSE LET all == loc.all \o page.v IN
              IF (IF emptyEnds THEN Len(page.v) = 0 ELSE Len(page.v) < loc.pageSize)
              THEN /\ pc' = "done"
                   /\ loc' = [loc EXCEPT !.requested = loc.pageNumber, !.all = all, !.result = Ok(all)]
              ELSE /\ pc' = "listing"
                   /\ loc' = [loc EXCEPT !.requested = loc.pageNumber, !.all = all,
                                         !.pageNumber = Wrap(loc.pageNumber + 1)]
    /\ UNCHANGED <<handler, plan, prior, remote, state, calls, diags>>

ListUsersIteration ==
    /\ handler = [res |-> "users", op |-> "List"]
    /\ ListIteration(FALSE)
ListRolesIteration ==
    /\ handler = [res |-> "roles", op |-> "List"]
    /\ ListIteration(FALSE)
ListGroupsIteration ==
    /\ handler = [res |-> "groups", op |-> "List"]
    /\ ListIteration(FALSE)
ListDatabasesIteration ==
    /\ handler = [res |-> "databases", op |-> "List"]
    /\ ListIteration(FALSE)
ListPermissionsIteration ==
    /\ handler = [res |-> "permissions", op |-> "List"]
    /\ ListIteration(TRUE)

Listings == {"users", "roles", "groups", "databases", "permissions"}
InitPaginate ==
    /\ \E res \in Listings : handler = [res |-> res, op |-> "List"]
    /\ pc = "listing"
    /\ \E n \in 0..MaxItems, size \in 0..MaxPageSize :
         loc = [items |-> [i \in 1..n |-> [Id |-> i]], pageSize |-> size,
                pageNumber |-> 0, requested |-> -1, all |-> <<>>, result |-> [err |-> "pending"]]
    /\ plan = [none |-> TRUE]
    /\ prior = StateAbsent
    /\ state = StateAbsent
    /\ remote = [none |-> TRUE]
    /\ calls = <<>>
    /\ diags = <<>>

NextPaginate ==
    \/ ListUsersIteration
    \/ ListRolesIteration
    \/ ListGroupsIteration
    \/ ListDatabasesIteration
    \/ ListPermissionsIteration

SpecPaginate == InitPaginate /\ [][NextPaginate]_vars
\* every request is answered or fails: the loop is never suspended for ever
SpecPaginateFair == SpecPaginate /\ WF_vars(NextPaginate)

(***************************************************************************)
(* The client wrapper's lookup of a user by name, with the error it        *)
(* returns.                                                                *)
(***************************************************************************)
\* &NotFoundError{Resource: resource, ID: id}
NotFoundErrorOf(resource, id) == [Resource |-> resource, ID |-> id]

\* NotFoundError.Error
Error(e) ==
    IF ~NIsNull(e.ID)
    THEN e.Resource \o " not found (id=" \o MustGet(e.ID) \o ")"
    ELSE e.Resource \o " not found"

\* strings.HasPrefix
HasPrefix(s, prefix) == Len(s) >= Len(prefix) /\ SubSeq(s, 1, Len(prefix)) = prefix

FindUserCall ==
    /\ Running("client", "FindUser", "start")
    /\ \E net \in NetList :
         LET user == FindUser(plan.Username, net) IN
         /\ calls' = CallNet("FindUser", plan.Username, net, user)
         /\ loc' = [user |-> IF Failed(user) THEN NNull ELSE NVal(user.v),
                    err |-> IF IsNotFound(user)
                            THEN NVal(Error(NotFoundErrorOf("User", NVal(plan.Username))))
                            ELSE IF Failed(user) THEN NVal("") ELSE NNull,
                    notFound |-> IsNotFound(user)]
    /\ pc' = "done"
    /\ UNCHANGED <<handler, plan, prior, remote, state, diags>>

UserTable == <<"alice", "bob", "user", "User">>
UserNamed(i) == [Id |-> 300 + i, Username |-> UserTable[i], Active |-> NVal(TRUE),
                 Roles |-> <<>>, Groups |-> <<>>]
SearchedNames == {"alice", "bob", "user", "nonexistentuser", ""}

InitFind ==
    /\ pc = "start"
    /\ loc = [none |-> TRUE]
    /\ calls = <<>>
    /\ diags = <<>>
    /\ state = StateAbsent
    /\ prior = StateAbsent
    /\ handler = [res |-> "client", op |-> "FindUser"]
    /\ \E uidx \in SUBSET (1..Len(UserTable)), userName \in SearchedNames :
         /\ plan = [Username |-> userName]
         /\ remote = RemoteOf({}, {}, {}, ListedIn(SortedSeq(uidx), UserNamed), <<>>, NoDataset, {})

NextFind == FindUserCall

SpecFind == InitFind /\ [][NextFind]_vars

(***************************************************************************)
(* Create run by provider processes that share the service: pc, loc, diags *)
(* and state hold one entry per process, and each remote call is one step. *)
(***************************************************************************)
Processes == {1, 2}
At(p, res, at) == handler = [res |-> res, op |-> "Create"] /\ p \in DOMAIN pc /\ pc[p] = at
HoldsRole(name) == \E i \in 1..Len(remote.roles) : remote.roles[i].Name = name
HoldsUser(name) == \E i \in 1..Len(remote.users) : remote.users[i].Username = name
\* a call of one process, with what the service held when it was served
CallOf(p, op, arg, net, held, r) ==
    Append(calls, [proc |-> p, op |-> op, arg |-> arg, net |-> net, held |-> held, res |-> r.err])

RoleRaceFindRoleUnchecked ==
    \E p \in Processes :
      /\ At(p, "role", "start")
      /\ \E net \in NetList :
           LET existingRole == FindRole(ValueString(plan.Name), net) IN
           /\ calls' = CallOf(p, "FindRole", ValueString(plan.Name), net,
                              HoldsRole(ValueString(plan.Name)), existingRole)
           /\ diags' = diags /\ pc' = [pc EXCEPT ![p] = "unique"]
      /\ UNCHANGED <<handler, plan, prior, remote, state, loc>>

RoleRaceFindRole ==
    \E p \in Processes :
      /\ At(p, "role", "start")
      /\ \E net \in NetList :
           LET existingRole == FindRole(ValueString(plan.Name), net) IN
           /\ calls' = CallOf(p, "FindRole", ValueString(plan.Name), net,
                              HoldsRole(ValueString(plan.Name)), existingRole)
           /\ IF ~IsNotFound(existingRole) /\ Failed(existingRole)
              THEN /\ diags' = [diags EXCEPT ![p] =
                                   AddError(@, "Client Error",
                                            Sprintf("Unable to validate role name uniqueness: %s", <<"err">>))]
                   /\ pc' = [pc EXCEPT ![p] = "done"]
              ELSE IF ~Failed(existingRole)
              THEN /\ diags' = [diags EXCEPT ![p] =
                                   AddError(@, "Client Error",
                                            Sprintf("A role with name '%s' already exists with ID %d",
                                                    <<ValueString(plan.Name), existingRole.v.Id>>))]
                   /\ pc' = [pc EXCEPT ![p] = "done"]
              ELSE diags' = diags /\ pc' = [pc EXCEPT ![p] = "unique"]
      /\ UNCHANGED <<handler, plan, prior, remote, state, loc>>

RoleRaceCreateRole ==
    \E p \in Processes :
      /\ At(p, "role", "unique")
      /\ \E netPost \in NetGet, netGet \in NetGet :
           LET postData == [Name |-> ValueString(plan.Name)]
               out == CreateRole(postData, netPost, netGet)
           IN
           /\ calls' = CallOf(p, "CreateRole", postData.Name, netPost, HoldsRole(postData.Name), out.r)
           /\ remote' = out.remote
           /\ IF Failed(out.r)
              THEN /\ diags' = [diags EXCEPT ![p] =
                                   AddError(@, "Client Error",
                                            Sprintf("Unable to create role, got error: %s", <<"err">>))]
                   /\ state' = state
              ELSE diags' = diags /\ state' = [state EXCEPT ![p] = StateOf(roleUpdateState(out.r.v))]
      /\ pc' = [pc EXCEPT ![p] = "done"]
      /\ UNCHANGED <<handler, plan, prior, loc>>

UserRaceListRoles ==
    \E p \in Processes :
      /\ At(p, "user", "start")
      /\ \E net \in NetGet :
           LET roles == ListRoles(net)
               r == resolveRoleIDsFromNames(plan, roles.v)
           IN
           /\ calls' = CallOf(p, "ListRoles", "", net, FALSE, roles)
           /\ IF Failed(roles)
              THEN /\ diags' = [diags EXCEPT ![p] =
                                   AddError(@, "Client Error", Sprintf("Unable to list roles: %s", <<"err">>))]
                   /\ pc' = [pc EXCEPT ![p] = "done"] /\ loc' = loc
              ELSE IF Len(r.notFound) > 0
              THEN /\ diags' = [diags EXCEPT ![p] =
                                   AddError(@, "Client Error", Sprintf("Unable to find roles: %v", <<r.notFound>>))]
                   /\ pc' = [pc EXCEPT ![p] = "done"] /\ loc' = loc
              ELSE /\ diags' = diags
                   /\ pc' = [pc EXCEPT ![p] = "roles"]
                   /\ loc' = [loc EXCEPT ![p] = [roleIds |-> r.ids, groupIds |-> <<>>]]
      /\ UNCHANGED <<handler, plan, prior, remote, state>>

UserRaceListGroups ==
    \E p \in Processes :
      /\ At(p, "user", "roles")
      /\ IF Len(Elements(plan.GroupNames)) > 0
         THEN \E net \in NetGet :
                LET groups == ListGroups(net)
                    r == resolveGroupIDsFromNames(plan, groups.v)
                IN
                /\ calls' = CallOf(p, "ListGroups", "", net, FALSE, groups)
                /\ IF Failed(groups)
                   THEN /\ diags' = [diags EXCEPT ![p] =
                                        AddError(@, "Client Error",
                                                 Sprintf("Unable to list groups: %s", <<"err">>))]
                        /\ pc' = [pc EXCEPT ![p] = "done"] /\ loc' = loc
                   ELSE IF Len(r.notFound) > 0
                   THEN /\ diags' = [diags EXCEPT ![p] =
                                        AddError(@, "Client Error",
                                                 Sprintf("Unable to find groups: %v", <<r.notFound>>))]
                        /\ pc' = [pc EXCEPT ![p] = "done"] /\ loc' = loc
                   ELSE /\ diags' = diags
                        /\ pc' = [pc EXCEPT ![p] = "groups"]
                        /\ loc' = [loc EXCEPT ![p].groupIds = r.ids]
         ELSE pc' = [pc EXCEPT ![p] = "groups"] /\ UNCHANGED <<calls, diags, loc>>
      /\ UNCHANGED <<handler, plan, prior, remote, state>>

UserRaceFindUser ==
    \E p \in Processes :
      /\ At(p, "user", "groups")
      /\ \E net \in NetList :
           LET existingUser == FindUser(ValueString(plan.Username), net) IN
           /\ calls' = CallOf(p, "FindUser", ValueString(plan.Username), net,
                              HoldsUser(ValueString(plan.Username)), existingUser)
           /\ IF ~IsNotFound(existingUser) /\ Failed(existingUser)
              THEN /\ diags' = [diags EXCEPT ![p] =
                                   AddError(@, "Client Error",
                                            Sprintf("Unable to validate user name uniqueness: %s", <<"err">>))]
                   /\ pc' = [pc EXCEPT ![p] = "done"]
              ELSE IF ~Failed(existingUser)
              THEN /\ diags' = [diags EXCEPT ![p] =
                                   AddError(@, "Client Error",
                                            Sprintf("A user with username '%s' already exists with ID %d",
                                                    <<ValueString(plan.Username), existingUser.v.Id>>))]
                   /\ pc' = [pc EXCEPT ![p] = "done"]
              ELSE diags' = diags /\ pc' = [pc EXCEPT ![p] = "unique"]
      /\ UNCHANGED <<handler, plan, prior, remote, state, loc>>

UserRaceCreateUser ==
    \E p \in Processes :
      /\ At(p, "user", "unique")
      /\ \E netPost \in NetGet, netGet \in NetGet :
           LET postData == [Username |-> ValueString(plan.Username), Active |-> ValueBool(plan.Active),
                            Roles |-> loc[p].roleIds, Groups |-> loc[p].groupIds]
               out == CreateUser(postData, netPost, netGet)
           IN
           /\ calls' = CallOf(p, "CreateUser", postData.Username, netPost,
                              HoldsUser(postData.Username), out.r)
           /\ remote' = out.remote
           /\ IF Failed(out.r)
              THEN /\ diags' = [diags EXCEPT ![p] =
                                   AddError(@, "Client Error",
                                            Sprintf("Unable to create user, got error: %s", <<"err">>))]
                   /\ state' = state
              ELSE /\ diags' = diags
                   /\ state' = [state EXCEPT ![p] = StateOf(userUpdateState(out.r.v, PasswordOf(plan)))]
      /\ pc' = [pc EXCEPT ![p] = "done"]
      /\ UNCHANGED <<handler, plan, prior, loc>>

InitRace ==
    /\ calls = <<>>
    /\ prior = StateAbsent
    /\ \E running \in {{1}, Processes} :
         /\ pc = [p \in running |-> "start"]
         /\ loc = [p \in running |-> [none |-> TRUE]]
         /\ diags = [p \in running |-> <<>>]
         /\ state = [p \in running |-> StateAbsent]
    /\ \/ \E ridx \in SUBSET (1..MaxRoles), name \in {"Admin", "Ghost"} :
            /\ handler = [res |-> "role", op |-> "Create"]
            /\ plan = [Id |-> Unknown, Name |-> Val(name)]
            /\ remote = RemoteOf(ridx, {}, {}, <<>>, <<>>, NoDataset, {})
       \/ \E ridx \in SUBSET (1..MaxRoles), users \in StoredUsers,
             roleNames \in {Val(<<>>), Val(ValuesOf(<<"Admin">>))} :
            /\ handler = [res |-> "user", op |-> "Create"]
            /\ plan = PlannedUser(Unknown, roleNames, Val(<<>>), Val("secret"))
            /\ remote = RemoteOf(ridx, {}, {}, users, <<>>, NoDataset, {})

NextRace ==
    \/ RoleRaceFindRole
    \/ RoleRaceCreateRole
    \/ UserRaceListRoles
    \/ UserRaceListGroups
    \/ UserRaceFindUser
    \/ UserRaceCreateUser

SpecRace == InitRace /\ [][NextRace]_vars

(***************************************************************************)
(* The same request served twice against the same remote state: after a    *)
(* first execution of dataset columns or dataset metrics Create / Update   *)
(* has sent its update, the dataset is as it was fetched and the handler   *)
(* is invoked again with the same plan and prior state.  calls keeps the   *)
(* calls of both executions.                                               *)
(***************************************************************************)
SameRequestAgain ==
    /\ handler.res \in {"dataset_columns", "dataset_metrics"}
    /\ pc = "done"
    /\ CallsOf("UpdateDataset") # {}
    /\ CallsOf("Again") = {}
    /\ remote' = [remote EXCEPT !.dataset = loc.dataset]
    /\ calls' = Append(calls, [op |-> "Again", arg |-> loc.dataset.Id, res |-> "none"])
    /\ pc' = "start"
    /\ loc' = [none |-> TRUE]
    /\ diags' = <<>>
    /\ state' = prior
    /\ UNCHANGED <<handler, plan, prior>>

InitTwice == InitColumns \/ InitMetrics

NextTwice ==
    \/ NextColumns
    \/ NextMetrics
    \/ SameRequestAgain

SpecTwice == InitTwice /\ [][NextTwice]_vars

(***************************************************************************)
(* Create of a user, a role or a group applied again: an invocation that   *)
(* ended with an error left no state, so the next apply invokes Create     *)
(* with the same plan against the service as the earlier invocation left   *)
(* it.  calls keeps the calls of every invocation, separated by "Again";   *)
(* someone else may remove the entity from the service ("Removed").        *)
(***************************************************************************)
MaxRetries == 2
NaturalKey == IF handler.res = "user" THEN ValueString(plan.Username) ELSE ValueString(plan.Name)
Holding ==
    IF handler.res = "user" THEN SelectSeq(remote.users, LAMBDA e : e.Username = NaturalKey)
    ELSE IF handler.res = "role" THEN SelectSeq(remote.roles, LAMBDA e : e.Name = NaturalKey)
    ELSE SelectSeq(remote.groups, LAMBDA e : e.Name = NaturalKey)

CreateAgain ==
    /\ handler.op = "Create" /\ handler.res \in {"user", "role", "group"}
    /\ pc = "done"
    /\ state = StateAbsent
    /\ Cardinality(CallsOf("Again")) < MaxRetries
    /\ calls' = Append(calls, [op |-> "Again", arg |-> NaturalKey, held |-> Len(Holding), res |-> "none"])
    /\ pc' = "start"
    /\ loc' = [none |-> TRUE]
    /\ diags' = <<>>
    /\ UNCHANGED <<handler, plan, prior, remote, state>>

EntityRemoved ==
    /\ handler.op = "Create" /\ handler.res \in {"user", "role", "group"}
    /\ Len(Holding) > 0
    /\ CallsOf("Removed") = {}
    /\ remote' = [remote EXCEPT
                     !.users = IF handler.res = "user"
                               THEN SelectSeq(@, LAMBDA e : e.Username # NaturalKey) ELSE @,
                     !.roles = IF handler.res = "role" THEN SelectSeq(@, LAMBDA e : e.Name # NaturalKey) ELSE @,
                     !.groups = IF handler.res = "group" THEN SelectSeq(@, LAMBDA e : e.Name # NaturalKey) ELSE @]
    /\ calls' = Append(calls, [op |-> "Removed", arg |-> NaturalKey, res |-> "none"])
    /\ UNCHANGED <<handler, plan, prior, state, pc, loc, diags>>

InitRetry ==
    /\ pc = "start"
    /\ loc = [none |-> TRUE]
    /\ calls = <<>>
    /\ diags = <<>>
    /\ \/ \E ridx \in SUBSET (1..MaxRoles), users \in StoredUsers,
             roleNames \in {Val(<<>>), Val(ValuesOf(<<"Admin">>))} :
            InitWriteOf("user", "Create", PlannedUser(Unknown, roleNames, Val(<<>>), Val("secret")),
                        StateAbsent, RemoteOf(ridx, {}, {}, users, <<>>, NoDataset, {}))
       \/ \E ridx \in SUBSET (1..MaxRoles), name \in {"Admin", "Ghost"} :
            InitWriteOf("role", "Create", [Id |-> Unknown, Name |-> Val(name)],
                        StateAbsent, RemoteOf(ridx, {}, {}, <<>>, <<>>, NoDataset, {}))
       \/ \E gidx \in SUBSET (1..MaxGroups), name \in {"analysts", "nobody"}, label \in {Null, Val("team")} :
            InitWriteOf("group", "Create", [Id |-> Unknown, Name |-> Val(name), Label |-> label],
                        StateAbsent, RemoteOf({}, gidx, {}, <<>>, <<>>, NoDataset, {}))
    /\ state = StateAbsent

NextRetry ==
    \/ UserCreateListRoles
    \/ UserCreateListGroups
    \/ UserCreateFindUser
    \/ UserCreateCreateUser
    \/ RoleCreateFindRole
    \/ RoleCreateCreateRole
    \/ GroupCreateFindGroup
    \/ GroupCreateCreateGroup
    \/ CreateAgain
    \/ EntityRemoved

SpecRetry == InitRetry /\ [][NextRetry]_vars

(***************************************************************************)
(* Properties of the dataset columns resource.                             *)
(***************************************************************************)
UpdateDatasetCalls == {i \in 1..Len(calls) : calls[i].op = "UpdateDataset"}
TypeText(t) == IF NIsNull(t) THEN "" ELSE MustGet(t)

\* C1: in dataset-columns Create and Update, every wire column of the dataset
\* update whose column_name is the name of a column the remote dataset holds
\* carries that server column's id and that server column's type, whatever
\* the plan or the prior state carries.
C1_WireCarriesServerIdAndType ==
    handler.res = "dataset_columns" =>
        \A i \in UpdateDatasetCalls :
            \A k \in 1..Len(calls[i].put.Columns) :
                LET w == calls[i].put.Columns[k] IN
                HasServerColumn(loc.dataset.Columns, w.ColumnName) =>
                    /\ w.Id = ServerColumn(loc.dataset.Columns, w.ColumnName).Id
                    /\ TypeText(w.Type) = TypeText(ServerColumn(loc.dataset.Columns, w.ColumnName).Type)

\* C2: in dataset-metrics Create and Update, every wire metric of the dataset
\* update whose metric_name is the name of a metric the remote dataset holds
\* carries that server metric's id, whatever id the planned metric carries.
C2_WireCarriesServerMetricId ==
    handler.res = "dataset_metrics" =>
        \A i \in UpdateDatasetCalls :
            \A k \in 1..Len(calls[i].put.Metrics) :
                LET w == calls[i].put.Metrics[k] IN
                HasServerMetric(loc.dataset.Metrics, w.MetricName) =>
                    w.Id = ServerMetric(loc.dataset.Metrics, w.MetricName).Id

(***************************************************************************)
(* Properties of the folder reconciler.                                    *)
(***************************************************************************)
FolderNodes(folders) ==
    {<<i, j>> : i \in 1..Len(folders), j \in 1..MaxChildren + 1} \cap
    UNION {{<<i, j>> : j \in 1..Len(folders[i].Children)} : i \in 1..Len(folders)}

\* the child's name is the name of a dataset entity of the child's type that
\* carries a uuid (a value other than the nil UUID)
CarriesUuid(child, d) ==
    /\ ~Failed(MatchOf(child, d))
    /\ NIsSpecified(MatchOf(child, d).v.Uuid)
    /\ ~NIsNull(MatchOf(child, d).v.Uuid)
    /\ uuidString(MustGet(MatchOf(child, d).v.Uuid)) # ZeroUuidText

\* C3: in a root folder of type folder, a child whose name matches a dataset
\* column (metric) that carries a uuid is sent with exactly that uuid, whatever
\* uuid was declared; a child matching nothing keeps its uuid through
\* resolveColumns; resolveColumns changes no name, type, description or
\* root-folder uuid.
C3_ChildrenCarryDatasetUuids ==
    handler = [res |-> "dataset_folder", op |-> "reconcile"] =>
        /\ (pc = "converted" /\ ~Failed(loc.wire)) =>
              \A n \in FolderNodes(plan.Folders) :
                  LET child == plan.Folders[n[1]].Children[n[2]] IN
                  (ValueString(plan.Folders[n[1]].Type) = "folder" /\ CarriesUuid(child, loc.dataset)) =>
                      MustGet(loc.wire.v[n[1]].Children)[n[2]].Uuid
                          = MustGet(MatchOf(child, loc.dataset).v.Uuid)
        /\ pc \in {"resolved", "converted"} =>
              /\ Len(loc.folders) = Len(plan.Folders)
              /\ \A i \in 1..Len(plan.Folders) :
                    /\ loc.folders[i].Name = plan.Folders[i].Name
                    /\ loc.folders[i].Type = plan.Folders[i].Type
                    /\ loc.folders[i].Description = plan.Folders[i].Description
                    /\ loc.folders[i].Uuid = plan.Folders[i].Uuid
                    /\ Len(loc.folders[i].Children) = Len(plan.Folders[i].Children)
              /\ \A n \in FolderNodes(plan.Folders) :
                    LET child == plan.Folders[n[1]].Children[n[2]]
                        resolved == loc.folders[n[1]].Children[n[2]]
                    IN
                    /\ resolved.Name = child.Name
                    /\ resolved.Type = child.Type
                    /\ resolved.Description = child.Description
                    /\ Failed(MatchOf(child, loc.dataset)) => resolved.Uuid = child.Uuid

\* a declared uuid U9 was overridden by the column's uuid u1 on the wire
C3_Witness ==
    /\ handler = [res |-> "dataset_folder", op |-> "reconcile"]
    /\ pc = "converted"
    /\ ~Failed(loc.wire)
    /\ \E n \in FolderNodes(plan.Folders) :
          /\ plan.Folders[n[1]].Children[n[2]].Uuid = Val("U9")
          /\ CarriesUuid(plan.Folders[n[1]].Children[n[2]], loc.dataset)
          /\ MustGet(loc.wire.v[n[1]].Children)[n[2]].Uuid = [uuid |-> "u1"]
    /\ \E n \in FolderNodes(plan.Folders) :
          /\ Failed(MatchOf(plan.Folders[n[1]].Children[n[2]], loc.dataset))
          /\ plan.Folders[n[1]].Children[n[2]].Uuid = Val("U9")
          /\ MustGet(loc.wire.v[n[1]].Children)[n[2]].Uuid = [uuid |-> "u9"]

\* a uuid text that toFolders must parse and cannot
Malformed(uuid) ==
    ~IsNull(uuid) /\ ValueString(uuid) \notin {"", ZeroUuidText} /\ Failed(uuidParse(ValueString(uuid)))
HasMalformedUuid(folders) ==
    \E i \in 1..Len(folders) :
        \/ Malformed(folders[i].Uuid)
        \/ \E j \in 1..Len(folders[i].Children) : Malformed(folders[i].Children[j].Uuid)
HasOtherRoot(folders) == \E i \in 1..Len(folders) : ValueString(folders[i].Type) # "folder"

LastCall == calls[Len(calls)]
Finished(res, op) == handler = [res |-> res, op |-> op] /\ pc = "done"

\* C4: Read of a user whose stored id the service answers with 404 removes
\* the resource from state and records no error.
C4_UserReadRemovesMissingUser ==
    (/\ Finished("user", "Read")
     /\ LastCall.net = "ok"
     /\ \A i \in 1..Len(remote.users) : remote.users[i].Id # ValueInt64(prior.v.Id))
        => (state = StateAbsent /\ ~HasError(diags))

\* C5: Read of role-permissions removes the resource and records no error
\* whenever FindRole or ListRolePermissions reports not-found, the latter
\* also for a role that exists and has no permissions.
C5_RolePermissionsReadRemovesOnNotFound ==
    (Finished("role_permissions", "Read") /\ LastCall.res = "notfound")
        => (state = StateAbsent /\ ~HasError(diags))

\* C6: Read of a role, a group or a group-role-binding whose lookup reports
\* not-found removes the resource, records no error and writes nothing else;
\* any other lookup failure records an error and leaves the state as it was.
C6_ReadRemovesOnNotFound ==
    \A res \in {"role", "group", "group_role_binding"} :
        Finished(res, "Read") =>
            /\ LastCall.res = "notfound" => (state = StateAbsent /\ ~HasError(diags))
            /\ LastCall.res = "other" => (state = prior /\ HasError(diags))
            /\ LastCall.res = "none" => (state # StateAbsent /\ ~HasError(diags))
            /\ LastCall.res = "notfound" <=>
                  \/ LastCall.net = "404"
                  \/ /\ LastCall.net = "ok"
                     /\ res = "role" => ~\E i \in 1..Len(remote.roles) :
                                            remote.roles[i].Id = ValueInt64(prior.v.Id)
                     /\ res = "group" => ~\E i \in 1..Len(remote.groups) :
                                             remote.groups[i].Id = ValueInt64(prior.v.Id)
                     /\ res = "group_role_binding" =>
                            ~\E i \in 1..Len(remote.groups) :
                                 remote.groups[i].Name = ValueString(prior.v.GroupName)

C6_Witness ==
    /\ Finished("group_role_binding", "Read")
    /\ LastCall.res = "notfound"
    /\ LastCall.net = "ok"
    /\ state = StateAbsent
    /\ diags = <<>>


(***************************************************************************)
(* Properties of Create and Update of the security, tag and dataset        *)
(* resources.                                                              *)
(***************************************************************************)
UniqueResources == {"user", "role", "group", "tag", "dataset"}
FindOp(res) ==
    IF res = "user" THEN "FindUser" ELSE IF res = "role" THEN "FindRole"
    ELSE IF res = "group" THEN "FindGroup" ELSE IF res = "tag" THEN "FindTag" ELSE "FindDataset"
CreateOp(res) ==
    IF res = "user" THEN "CreateUser" ELSE IF res = "role" THEN "CreateRole"
    ELSE IF res = "group" THEN "CreateGroup" ELSE IF res = "tag" THEN "CreateTag" ELSE "CreateDataset"
ConflictFormat(res) ==
    IF res = "user" THEN "A user with username '%s' already exists with ID %d"
    ELSE IF res = "role" THEN "A role with name '%s' already exists with ID %d"
    ELSE IF res = "group" THEN "A group with name '%s' already exists with ID %d"
    ELSE IF res = "tag" THEN "A tag with name '%s' already exists with ID %d"
    ELSE "A Dataset with name '%s' already exists with ID %d"
\* the ids of the remote entities of a kind that carry a natural key
IdsWithKey(res, key) ==
    IF res = "user" THEN {remote.users[i].Id : i \in {k \in 1..Len(remote.users) : remote.users[k].Username = key}}
    ELSE IF res = "role" THEN {remote.roles[i].Id : i \in {k \in 1..Len(remote.roles) : remote.roles[k].Name = key}}
    ELSE IF res = "group" THEN {remote.groups[i].Id : i \in {k \in 1..Len(remote.groups) : remote.groups[k].Name = key}}
    ELSE IF res = "tag" THEN {remote.tags[i].Id : i \in {k \in 1..Len(remote.tags) : remote.tags[k].Name = key}}
    ELSE IF remote.dataset.exists /\ remote.dataset.TableName = key THEN {remote.dataset.Id} ELSE {}
NamesConflict(res, key) ==
    \E d \in {diags[i] : i \in 1..Len(diags)}, id \in IdsWithKey(res, key) :
        d.sev = "error" /\ d.detail.format = ConflictFormat(res) /\ d.detail.args = <<key, id>>

\* C7: Create of a user, role, group, tag or dataset issues the remote create
\* only after a lookup of the same key reported not-found; a lookup that
\* returned an entity ends Create with an error naming that entity's id, no
\* create call and no state; a lookup that failed otherwise also ends Create
\* with an error, no create call and no state.
C7_CreateOnlyAfterNotFound ==
    (handler.op = "Create" /\ handler.res \in UniqueResources) =>
        /\ \A i \in CallsOf(CreateOp(handler.res)) :
               \E j \in CallsOf(FindOp(handler.res)) :
                   j < i /\ calls[j].arg = calls[i].arg /\ calls[j].res = "notfound"
        /\ \A j \in CallsOf(FindOp(handler.res)) :
               calls[j].res # "notfound" =>
                   /\ pc = "done" /\ HasError(diags) /\ state = StateAbsent
                   /\ CallsOf(CreateOp(handler.res)) = {}
                   /\ calls[j].res = "none" => NamesConflict(handler.res, calls[j].arg)

C7_Witness ==
    /\ handler = [res |-> "user", op |-> "Create"] /\ pc = "done"
    /\ \E j \in CallsOf("FindUser") : calls[j].res = "none" /\ calls[j].arg = "alice"
    /\ NamesConflict("user", "alice")
    /\ CallsOf("CreateUser") = {}
    /\ state = StateAbsent

ResolvingResources == {"user", "role_permissions", "group_role_binding"}
Collections == {"roles", "groups", "permissions"}
ListOp(kind) ==
    IF kind = "roles" THEN "ListRoles" ELSE IF kind = "groups" THEN "ListGroups" ELSE "ListPermissions"
WriteOps == {"CreateUser", "UpdateUser", "AssignRolesToGroup", "AssignPermissionsToRole"}
Declares(kind) ==
    IF kind = "roles" THEN "RoleNames" \in DOMAIN plan
    ELSE IF kind = "groups" THEN "GroupNames" \in DOMAIN plan
    ELSE "Permissions" \in DOMAIN plan
DeclaredIn(kind) ==
    IF kind = "roles" THEN Elements(plan.RoleNames)
    ELSE IF kind = "groups" THEN Elements(plan.GroupNames)
    ELSE Elements(plan.Permissions)
WellFormed(kind, e) ==
    IF kind = "permissions" THEN ~PermissionObjectPanics(e) ELSE ~IsNull(e)
NameIn(kind, e) ==
    IF kind = "permissions"
    THEN ValueString(e.v.permission_name) \o "_" \o ValueString(e.v.view_menu_name)
    ELSE ValueString(e)
RemoteNames(kind) ==
    IF kind = "roles" THEN {remote.roles[i].Name : i \in 1..Len(remote.roles)}
    ELSE IF kind = "groups" THEN {remote.groups[i].Name : i \in 1..Len(remote.groups)}
    ELSE {remote.permissions[i].Permission.Name \o "_" \o remote.permissions[i].ViewMenu.Name :
              i \in 1..Len(remote.permissions)}
Unresolved(kind) ==
    {NameIn(kind, DeclaredIn(kind)[i]) :
        i \in {k \in 1..Len(DeclaredIn(kind)) : NameIn(kind, DeclaredIn(kind)[k]) \notin RemoteNames(kind)}}
NotFoundFormats ==
    {"Unable to find roles: %v", "Unable to find groups: %v",
     "The following roles were not found: %v", "The following permissions were not found: %v"}
ReportsAll(names) ==
    \E d \in {diags[i] : i \in 1..Len(diags)} :
        /\ d.sev = "error" /\ d.detail.format \in NotFoundFormats
        /\ \A n \in names : \E k \in 1..Len(d.detail.args[1]) : d.detail.args[1][k] = n

\* C8: in user, role-permissions and group-role-binding Create and Update,
\* once a collection has been listed and at least one declared name has no
\* match in it, the handler ends with an error that carries every
\* unresolved name of that collection, has issued no create, update or
\* assign call, and has written no state.
C8_UnresolvedNamesAllReported ==
    (handler.op \in {"Create", "Update"} /\ handler.res \in ResolvingResources) =>
        \A kind \in Collections :
            (/\ Declares(kind)
             /\ \E i \in CallsOf(ListOp(kind)) : calls[i].res = "none"
             /\ \A i \in 1..Len(DeclaredIn(kind)) : WellFormed(kind, DeclaredIn(kind)[i])
             /\ Unresolved(kind) # {})
                => /\ pc = "done"
                   /\ ReportsAll(Unresolved(kind))
                   /\ \A i \in 1..Len(calls) : calls[i].op \notin WriteOps
                   /\ state = prior

C8_Witness ==
    /\ handler = [res |-> "group_role_binding", op |-> "Update"] /\ pc = "done"
    /\ plan.RoleNames = Val(<<Val("Ghost"), Val("Admin"), Val("Phantom")>>)
    /\ \E i \in CallsOf("ListRoles") : calls[i].res = "none"
    /\ Unresolved("roles") = {"Ghost", "Phantom"}
    /\ ReportsAll({"Ghost", "Phantom"})
    /\ Len(calls) = 1
    /\ state = prior

(***************************************************************************)
(* Properties of name resolution.                                          *)
(***************************************************************************)
DeclaredOf ==
    IF handler.op = "resolveGroupIDsFromNames" THEN plan.GroupNames
    ELSE IF handler.op = "resolvePermissions" THEN plan.Permissions
    ELSE plan.RoleNames
AllNames(d) ==
    \A i \in 1..Len(Elements(d)) :
        IF handler.op = "resolvePermissions"
        THEN ~PermissionObjectPanics(Elements(d)[i])
        ELSE ~IsNull(Elements(d)[i])
DeclaredKey(e) ==
    IF handler.op = "resolvePermissions"
    THEN ValueString(e.v.permission_name) \o "_" \o ValueString(e.v.view_menu_name)
    ELSE ValueString(e)
SourceKey(e) ==
    IF handler.op = "resolvePermissions" THEN e.Permission.Name \o "_" \o e.ViewMenu.Name ELSE e.Name
UniqueKeys(S) == \A i, j \in 1..Len(S) : SourceKey(S[i]) = SourceKey(S[j]) => i = j
InSource(S, k) == \E i \in 1..Len(S) : SourceKey(S[i]) = k
EntityIdOf(S, k) == (CHOOSE e \in {S[i] : i \in 1..Len(S)} : SourceKey(e) = k).Id
ResultIds(r) ==
    IF handler.op = "resolvePermissions" THEN [i \in 1..Len(r.ids) |-> r.ids[i].Id] ELSE r.ids
\* the positions of the declared names with / without a source entity, in order
Positions(D, S, present) ==
    SortedSeq({i \in 1..Len(D) : InSource(S, DeclaredKey(D[i])) = present})

\* C9: for a non-null collection of declared names and a source with unique
\* keys, notFound is the declared names whose key is absent from the source,
\* and ids is one id per declared name whose key is in the source - the id
\* of the source entity with that key - in the order of the declared names.
C9_ResolveCompleteInOrder ==
    (/\ handler.res = "resolver" /\ pc = "done"
     /\ ~IsNull(DeclaredOf) /\ AllNames(DeclaredOf) /\ UniqueKeys(loc.source))
        => LET D == Elements(DeclaredOf)
               S == loc.source
               hit == Positions(D, S, TRUE)
               miss == Positions(D, S, FALSE)
           IN /\ ~loc.result.panic
              /\ ResultIds(loc.result) = [k \in 1..Len(hit) |-> EntityIdOf(S, DeclaredKey(D[hit[k]]))]
              /\ loc.result.notFound = [k \in 1..Len(miss) |-> DeclaredKey(D[miss[k]])]

\* {A, B, C} declared against a source holding only A and C: the ids of A
\* and C in declared order, B not found
C9_Witness ==
    /\ handler = [res |-> "resolver", op |-> "resolveRoleIDsFromNames"] /\ pc = "done"
    /\ plan.RoleNames = Val(<<Val("Alpha"), Val("Ghost"), Val("Admin")>>)
    /\ loc.source = <<RoleOf(1), RoleOf(2)>>
    /\ loc.result.ids = <<102, 101>>
    /\ loc.result.notFound = <<"Ghost">>


(***************************************************************************)
(* Properties of the certification side channel.                           *)
(***************************************************************************)
Certified(item) == ~IsNull(item.CertifiedBy) \/ ~IsNull(item.CertificationDetails)

\* C10: in dataset-columns Create and Update, a wire column carries an
\* extra JSON string holding the certification exactly when certified_by or
\* certification_details is non-null in the declared column - also when
\* only certification_details is set - and carries no extra when both are
\* null.
C10_ExtraExactlyWhenCertified ==
    handler.res = "dataset_columns" =>
        \A i \in UpdateDatasetCalls :
            \A k \in 1..Len(calls[i].put.Columns) :
                LET w == calls[i].put.Columns[k]
                    declared == plan.Columns[w.ColumnName]
                IN /\ NIsSpecified(w.Extra) <=> Certified(declared)
                   /\ Certified(declared) =>
                          MustGet(w.Extra) = [text |-> "json",
                                              json |-> JsonCert(ValueString(declared.CertifiedBy),
                                                                ValueString(declared.CertificationDetails))]

(***************************************************************************)
(* C11: packing a certification with toExtra and parsing the text into a   *)
(* fresh model gives back certified_by and certification_details whenever  *)
(* at least one of them is non-null; when both are null toExtra gives the  *)
(* empty text, and parsing an absent or empty extra leaves both null.      *)
(***************************************************************************)
C11_CertificationRoundTrip ==
    (handler.op = "certification" /\ pc \in {"done", "panic"}) =>
        IF Certified(plan)
        THEN pc = "done" /\ loc.parsed = plan
        ELSE /\ loc.extra.text = "empty"
             /\ NIsSpecified(loc.wire) => (pc = "done" /\ loc.parsed = FreshCertification)

(***************************************************************************)
(* Properties of updateState of dataset folders.                           *)
(***************************************************************************)
ResponseFolders == IF loc.dataset.Folders.n = "value" THEN MustGet(loc.dataset.Folders) ELSE <<>>
ResponseChildren(root) == IF root.Children.n = "value" THEN MustGet(root.Children) ELSE <<>>
HasNestedFolder ==
    \E i \in 1..Len(ResponseFolders) :
        \E j \in 1..Len(ResponseChildren(ResponseFolders[i])) :
            ResponseChildren(ResponseFolders[i])[j].Type = "folder"

\* C13: updateState of dataset folders fails, producing no folder state,
\* when a root folder of the response has a child of type "folder".
C13_NestedFolderRejected ==
    (handler.op = "updateState" /\ pc # "start" /\ HasNestedFolder) =>
        (pc = "failed" /\ loc.model.Folders = prior.v.Folders)

\* the response carries a folder list whose nodes the code can read: no
\* description is an explicit null and every root has a children field
ReadableResponse ==
    /\ loc.dataset.Folders.n = "value"
    /\ \A i \in 1..Len(ResponseFolders) :
          /\ ~NIsNull(ResponseFolders[i].Description)
          /\ NIsSpecified(ResponseFolders[i].Children)
          /\ \A j \in 1..Len(ResponseChildren(ResponseFolders[i])) :
                ~NIsNull(ResponseChildren(ResponseFolders[i])[j].Description)
CanonicalText(uuid) ==
    IF uuid.n # "value" THEN ZeroUuidText
    ELSE IF MustGet(uuid) = "U9" THEN "u9" ELSE MustGet(uuid)
HasOtherRootType == \E i \in 1..Len(ResponseFolders) : ResponseFolders[i].Type # "folder"
HasChildWithoutUuid ==
    \E i \in 1..Len(ResponseFolders) :
        \E j \in 1..Len(ResponseChildren(ResponseFolders[i])) :
            CanonicalText(ResponseChildren(ResponseFolders[i])[j].Uuid) = ZeroUuidText

ChildExists(child, d) ==
    \/ /\ ValueString(child.Type) = "column"
       /\ \E i \in 1..Len(d.Columns) : d.Columns[i].ColumnName = ValueString(child.Name)
    \/ /\ ValueString(child.Type) = "metric"
       /\ \E i \in 1..Len(d.Metrics) : d.Metrics[i].MetricName = ValueString(child.Name)
ValidDeclared(folders, d) ==
    \A i \in 1..Len(folders) :
        /\ ValueString(folders[i].Type) = "folder"
        /\ \A j \in 1..Len(folders[i].Children) : ChildExists(folders[i].Children[j], d)
CreatePayload == calls[CHOOSE i \in 1..Len(calls) : calls[i].op = "UpdateDataset"].put.Folders
ReadAfterCreateDone ==
    /\ handler = [res |-> "dataset_folder", op |-> "Read"]
    /\ "created" \in DOMAIN loc
    /\ pc = "done" /\ ~HasError(diags) /\ state # StateAbsent

\* C15: for a valid declared folder set, dataset-folder Create followed by
\* Read yields a state whose folders equal those persisted by Create, and
\* converting that state back to the wire (resolveColumns, then toFolders)
\* yields the folders of the payload Create sent, with the same uuids.
C15_CreateReadRoundTrip ==
    (ReadAfterCreateDone /\ ValidDeclared(plan.Folders, remote.dataset)) =>
        /\ state.v.Folders = loc.created.Folders
        /\ ~resolveColumnsPanics(state.v.Folders, remote.dataset)
        /\ \A seed \in {0, 1} :
              toFolders(resolveColumns(state.v.Folders, remote.dataset), seed) = Ok(CreatePayload)

C15_Witness ==
    /\ ReadAfterCreateDone /\ ValidDeclared(plan.Folders, remote.dataset)
    /\ Len(state.v.Folders) = 1
    /\ Len(state.v.Folders[1].Children) = 2
    /\ state.v.Folders[1].Children[1].Name = Val("COL1")
    /\ state.v.Folders[1].Children[1].Uuid = Val("u1")
    /\ state.v.Folders[1].Children[2].Name = Val("METRIC1")
    /\ state.v.Folders[1].Children[2].Uuid = Val("u9")
    /\ CreatePayload[1].Children.v[1].Uuid = [uuid |-> "u1"]

\* the certification the served dataset carries in its extra field
ServedCertification(d) ==
    IF ~NIsNull(d.Extra) /\ MustGet(d.Extra).text = "json"
    THEN MustGet(d.Extra).json.certification
    ELSE [certified_by |-> "", details |-> ""]
TextOrNull(text) == IF text = "" THEN Null ELSE Val(text)
ReadDone(res) ==
    /\ handler = [res |-> res, op |-> "Read"]
    /\ pc = "done" /\ ~HasError(diags) /\ state # StateAbsent

\* C16: after a successful Read of a dataset or a dataset-folder resource
\* every optional field the remote entity does not carry is null or empty
\* in state, also when the prior state held a value: the folders when the
\* remote folders are null, and certified_by, certification_details and
\* fetch_values_predicate of a dataset.
C16_ReadRederivesState ==
    /\ (ReadDone("dataset_folder") /\ NIsNull(remote.dataset.Folders)) => state.v.Folders = <<>>
    /\ ReadDone("dataset") =>
          /\ state.v.CertifiedBy = TextOrNull(ServedCertification(remote.dataset).certified_by)
          /\ state.v.CertificationDetails = TextOrNull(ServedCertification(remote.dataset).details)
          /\ (NIsNull(remote.dataset.FetchValuesPredicate)
                \/ MustGet(remote.dataset.FetchValuesPredicate) = "")
               => IsNull(state.v.FetchValuesPredicate)


(***************************************************************************)
(* Properties of Update of role, group, tag and dataset.                   *)
(***************************************************************************)
UpdatedFromReadBack == {"role", "group", "tag", "dataset"}
UpdateDone ==
    /\ handler.op = "Update"
    /\ handler.res \in UpdatedFromReadBack
    /\ pc = "done"
    /\ ~HasError(diags)
\* the model Create would persist for the entity the update call returned
ReadBackModel ==
    IF handler.res = "dataset" THEN datasetUpdateState(plan, remote.dataset) ELSE loc.readBack
DeclaredFields ==
    IF handler.res = "dataset" THEN {"Id", "TableName", "Description", "CertifiedBy", "CertificationDetails"}
    ELSE DOMAIN plan

\* C17: after a successful remote update, Update of a role, a group, a tag or
\* a dataset persists the state derived from the entity the update call read
\* back, as Create does, also when that entity differs from the planned values.
C17_UpdatePersistsReadBack ==
    UpdateDone => \A f \in DeclaredFields : state.v[f] = ReadBackModel[f]


(***************************************************************************)
(* Properties of Delete.                                                   *)
(***************************************************************************)
HasWarning(ds) == \E i \in 1..Len(ds) : ds[i].sev = "warning"
DeleteDone(res) == handler = [res |-> res, op |-> "Delete"] /\ pc = "done"
DeleteUserFailed == CallsOf("DeleteUser") # {} /\ calls[1].res # "none"

\* C18: user Delete.  A remote delete that failed is recorded as a warning
\* and followed by exactly one user update with active = false and an empty
\* group list; Delete then ends without an error diagnostic when that update
\* succeeded and with one when it failed.  When the remote delete succeeded
\* no user update is issued.
C18_UserDeleteFallsBackToDeactivation ==
    DeleteDone("user") =>
        /\ Cardinality(CallsOf("DeleteUser")) = 1 /\ calls[1].op = "DeleteUser"
        /\ IF DeleteUserFailed
           THEN /\ HasWarning(diags)
                /\ Len(calls) = 2 /\ calls[2].op = "UpdateUser"
                /\ calls[2].arg = ValueInt64(prior.v.Id)
                /\ calls[2].put.Active = FALSE /\ calls[2].put.Groups = <<>>
                /\ HasError(diags) <=> calls[2].res # "none"
           ELSE /\ CallsOf("UpdateUser") = {}
                /\ diags = <<>>
C18_Witness ==
    /\ DeleteDone("user") /\ DeleteUserFailed
    /\ calls[2].res = "none" /\ ~HasError(diags)
    /\ \E i \in 1..Len(remote.users) : remote.users[i].Active = NVal(FALSE) /\ remote.users[i].Groups = <<>>


SubCollections == {"dataset_folder", "dataset_columns", "dataset_metrics", "role_permissions", "group_role_binding"}
ParentDeletes == {"DeleteDataset", "DeleteRole", "DeleteGroup"}
ParentUpdates == {"UpdateDataset", "AssignPermissionsToRole", "AssignRolesToGroup"}
EmptiedPut ==
    IF handler.res = "dataset_folder" THEN [Folders |-> <<>>]
    ELSE IF handler.res = "dataset_columns" THEN [Columns |-> <<>>]
    ELSE IF handler.res = "dataset_metrics" THEN [Metrics |-> <<>>]
    ELSE <<>>
\* the lookup returned the parent, or (no lookup) the service holds the group
ParentFound ==
    IF handler.res = "group_role_binding" THEN HasId(remote.groups, ValueInt64(prior.v.GroupId))
    ELSE calls[1].res = "none"
ParentAbsent ==
    IF handler.res = "group_role_binding" THEN ~HasId(remote.groups, ValueInt64(prior.v.GroupId))
    ELSE calls[1].res = "notfound"
UpdatesOfParent == {i \in 1..Len(calls) : calls[i].op \in ParentUpdates}

\* C19: Delete of dataset-folder, dataset-columns, dataset-metrics,
\* role-permissions and group-role-binding never issues a remote delete of
\* the parent; when the parent is found it issues exactly one update of the
\* parent in which the managed sub-collection is the empty list; and it ends
\* with an error diagnostic exactly when a remote call failed for a reason
\* other than the parent being absent.
C19_DeleteEmptiesSubCollection ==
    (handler.op = "Delete" /\ handler.res \in SubCollections /\ pc = "done") =>
        /\ \A i \in 1..Len(calls) : calls[i].op \notin ParentDeletes
        /\ ParentFound =>
              /\ Cardinality(UpdatesOfParent) = 1
              /\ \A i \in UpdatesOfParent : calls[i].put = EmptiedPut
        /\ IF ParentAbsent THEN ~HasError(diags)
           ELSE HasError(diags) <=> \E i \in 1..Len(calls) : calls[i].res # "none"


(***************************************************************************)
(* Properties of ValidateConfig of the role permissions resource.          *)
(***************************************************************************)
ValidatedList ==
    /\ handler = [res |-> "role_permissions", op |-> "ValidateConfig"]
    /\ pc = "done"
    /\ ~IsNull(plan.Permissions) /\ ~IsUnknown(plan.Permissions)
FullySpecified(e) ==
    /\ ~IsNull(e.v.permission_name) /\ ~IsUnknown(e.v.permission_name)
    /\ ~IsNull(e.v.view_menu_name) /\ ~IsUnknown(e.v.view_menu_name)
SamePair(a, b) ==
    /\ a.v.permission_name = b.v.permission_name
    /\ a.v.view_menu_name = b.v.view_menu_name
DuplicateErrors == {i \in 1..Len(diags) : diags[i].summary = "Duplicate permission"}

\* C20: ValidateConfig of role-permissions, on a permissions list whose
\* elements are fully specified: every element whose (permission_name,
\* view_menu_name) pair equals that of an earlier element gets a "Duplicate
\* permission" error at its own list index that names the index of the first
\* occurrence of the pair, and a list of pairwise distinct pairs gets no such
\* error.
C20_DuplicatePairsReported ==
    (ValidatedList /\ \A k \in 1..Len(plan.Permissions.v) : FullySpecified(plan.Permissions.v[k])) =>
        LET elems == plan.Permissions.v
            earlier(i) == {j \in 1..(i - 1) : SamePair(elems[j], elems[i])}
        IN
        /\ \A i \in 1..Len(elems) :
              earlier(i) # {} =>
                 \E d \in DuplicateErrors :
                    /\ diags[d].path = <<"permissions", i - 1>>
                    /\ diags[d].detail.args[2] = MinOf(earlier(i)) - 1
        /\ (\A i \in 1..Len(elems) : earlier(i) = {}) => DuplicateErrors = {}


(***************************************************************************)
(* Properties of the paginated listings.                                   *)
(***************************************************************************)
Listing == handler.op = "List"
RECURSIVE PagesUpTo(_, _, _)
PagesUpTo(items, size, n) ==
    IF n = 0 THEN <<>> ELSE PagesUpTo(items, size, n - 1) \o PageOfSize(items, n - 1, size)
StopsAt(page) == IF handler.res = "permissions" THEN Len(page) = 0 ELSE Len(page) < loc.pageSize
PageRequested(k) == PageOfSize(loc.items, k, loc.pageSize)

\* what holds in every state of a listing with page size 1 or more
ListingInOrder ==
    (Listing /\ loc.pageSize >= 1) =>
        /\ pc = "listing" =>
              /\ loc.requested = loc.pageNumber - 1
              /\ loc.all = PagesUpTo(loc.items, loc.pageSize, loc.pageNumber)
              /\ \A k \in 0..(loc.pageNumber - 1) : ~StopsAt(PageRequested(k))
        /\ pc = "done" =>
              /\ loc.requested = loc.pageNumber
              /\ loc.result = Ok(loc.items)
              /\ StopsAt(PageRequested(loc.pageNumber))
              /\ \A k \in 0..(loc.pageNumber - 1) : ~StopsAt(PageRequested(k))
        /\ pc = "failed" => loc.requested = loc.pageNumber /\ loc.result = OtherError

\* C21: ListUsers, ListRoles, ListGroups, ListDatabases and ListPermissions
\* over an unchanging collection with a page size of 1 or more: the pages
\* are requested in the order 0, 1, 2, ... one at a time, none skipped and
\* none twice; the result is the concatenation of the pages, which holds
\* every remote item once; the loop stops at the first page shorter than the
\* page size (the first empty page for permissions); a failed page request
\* ends the call with an error and no items.
C21_PagesInOrderAndComplete ==
    /\ []ListingInOrder
    /\ [][(Listing /\ loc.pageSize >= 1) =>
             /\ loc'.requested = loc.requested + 1
             /\ loc'.items = loc.items /\ loc'.pageSize = loc.pageSize]_vars
C21_Witness ==
    /\ Listing /\ pc = "done" /\ loc.pageSize = 2 /\ Len(loc.items) = 4
    /\ loc.pageNumber = 2 /\ loc.result = Ok(loc.items)

\* C22: for every page size the provider configuration accepts, 0 included,
\* and every finite collection whose page requests all succeed, each
\* paginated listing terminates after finitely many page requests.
C22_ListingTerminates ==
    Listing => <>(pc \in {"done", "failed"})


(***************************************************************************)
(* Properties of dataset Create with a bootstrap database, and of the      *)
(* failure reports of the dataset handlers.                                *)
(***************************************************************************)
DatasetHandlers == {"dataset", "dataset_columns", "dataset_metrics", "dataset_folder"}
DatabaseIdOf(name) ==
    LET at == {i \in 1..Len(remote.databases) : remote.databases[i].DatabaseName = name}
    IN IF at = {} THEN 0 ELSE remote.databases[CHOOSE i \in at : TRUE].Id
BootstrapCreate ==
    /\ handler = [res |-> "dataset", op |-> "Create"]
    /\ isChangedBootstrapDatabase(plan)
\* the second half of Create failed: the intended database was not found
\* after the dataset was created, or the dataset update failed
MoveFailed ==
    /\ CallsOf("CreateDataset") # {}
    /\ LastCall.op \in {"FindDatabase", "UpdateDataset"}
    /\ LastCall.res # "none"

\* C29: in the Create and Update handlers of dataset, dataset columns, dataset
\* metrics and dataset folder, a FindDataset, GetDataset or UpdateDataset call
\* that returns an error and no entity ends the handler normally, with an
\* error diagnostic and the state as it was: the handler never fails while
\* reading a field of the missing result.
C29_RemoteFailureEndsWithError ==
    (/\ handler.res \in DatasetHandlers
     /\ handler.op \in {"Create", "Update"}
     /\ calls # <<>>
     /\ LastCall.op \in {"FindDataset", "GetDataset", "UpdateDataset"}
     /\ LastCall.res = "other") =>
        /\ pc = "done"
        /\ HasError(diags)
        /\ state = prior

\* C23: in a dataset Create whose bootstrap database differs from the declared
\* database, the dataset is created against the bootstrap database's id, the
\* update follows a successful create and carries the declared database's id,
\* state is saved only after a successful update, and when the lookup of the
\* declared database or the update fails, Create ends with an error diagnostic
\* and no state while the remote dataset stays on the bootstrap database.
C23_BootstrapThenMove ==
    BootstrapCreate =>
        /\ \A i \in CallsOf("CreateDataset") :
               /\ calls[i].post.Database = DatabaseIdOf(bootstrapDatabaseName(plan))
               /\ calls[i].post.Database # 0
        /\ \A i \in CallsOf("UpdateDataset") :
               /\ \E j \in CallsOf("CreateDataset") : j < i /\ calls[j].res = "none"
               /\ calls[i].put.DatabaseId = DatabaseIdOf(ValueString(plan.DatabaseName))
               /\ calls[i].put.DatabaseId # 0
        /\ state # StateAbsent =>
               /\ \E i \in CallsOf("UpdateDataset") : calls[i].res = "none"
               /\ remote.dataset.Database.DatabaseName = ValueString(plan.DatabaseName)
        /\ MoveFailed =>
               /\ pc = "done"
               /\ HasError(diags)
               /\ state = StateAbsent
               /\ remote.dataset.exists
               /\ remote.dataset.Database.DatabaseName = bootstrapDatabaseName(plan)


(***************************************************************************)
(* Properties of the lookup of a user by name.                             *)
(***************************************************************************)
NoSuchUser == \A i \in 1..Len(remote.users) : remote.users[i].Username # plan.Username
FindUserAnswered ==
    /\ handler = [res |-> "client", op |-> "FindUser"]
    /\ pc = "done"
    /\ calls[1].net \in {"ok", "404"}

\* C24: FindUser called with a username that matches no remote user returns
\* no user and a non-nil error whose message starts with "user not found".
C24_UnknownUserIsNotFound ==
    (FindUserAnswered /\ NoSuchUser) =>
        /\ NIsNull(loc.user)
        /\ ~NIsNull(loc.err)
        /\ loc.notFound
        /\ HasPrefix(MustGet(loc.err), "user not found")


(***************************************************************************)
(* Properties of the permission resolver for names holding the separator.  *)
(***************************************************************************)
PermissionsResolved ==
    /\ handler = [res |-> "resolver", op |-> "resolvePermissions"]
    /\ pc = "done"
    /\ ~IsNull(plan.Permissions) /\ ~IsUnknown(plan.Permissions)
    /\ ~loc.result.panic
CatalogHolds(p) ==
    \E i \in 1..Len(loc.source) :
        /\ loc.source[i].Permission.Name = ValueString(p.v.permission_name)
        /\ loc.source[i].ViewMenu.Name = ValueString(p.v.view_menu_name)

Racing == handler.op = "Create" /\ handler.res \in {"role", "user"} /\ DOMAIN pc \subseteq Processes
LookupOp == IF handler.res = "role" THEN "FindRole" ELSE "FindUser"
CreateCallOp == IF handler.res = "role" THEN "CreateRole" ELSE "CreateUser"
\* the lookup of the process that issued create call i
LookupBefore(i) ==
    CHOOSE j \in 1..Len(calls) : j < i /\ calls[j].proc = calls[i].proc /\ calls[j].op = LookupOp
\* the create call i was issued while the service held the key
SecondCreate(i) == calls[i].op = CreateCallOp /\ calls[i].held
StoredBetween(j, i) ==
    \E k \in (j + 1)..(i - 1) :
        calls[k].op = CreateCallOp /\ calls[k].proc # calls[i].proc /\ ~calls[k].held

\* C26: every create call follows a lookup of the same process that reported
\* not-found; a create call issued for a key the service already holds has a
\* create of another process between that lookup and itself, the lookup
\* being answered from the collection; so a process that runs alone never
\* issues a create for a key the service holds.
C26_CheckHoldsOnlyWithoutConcurrency ==
    Racing =>
        \A i \in CallsOf(CreateCallOp) :
            /\ \E j \in 1..(i - 1) :
                   calls[j].proc = calls[i].proc /\ calls[j].op = LookupOp /\ calls[j].res = "notfound"
            /\ (SecondCreate(i) /\ calls[LookupBefore(i)].net = "ok") =>
                   /\ StoredBetween(LookupBefore(i), i)
                   /\ DOMAIN pc = Processes

\* both processes looked the key up before either created it: both lookups
\* reported not-found and both creates were issued, the second for a key the
\* service held
C26_Witness ==
    /\ Racing /\ DOMAIN pc = Processes
    /\ \A p \in Processes : pc[p] = "done"
    /\ \A p \in Processes :
           \E j, i \in 1..Len(calls) :
               /\ j < i
               /\ calls[j].proc = p /\ calls[j].op = LookupOp /\ calls[j].res = "notfound"
               /\ calls[j].net = "ok" /\ ~calls[j].held
               /\ calls[i].proc = p /\ calls[i].op = CreateCallOp
    /\ \E i \in CallsOf(CreateCallOp) : SecondCreate(i)


(***************************************************************************)
(* Properties of the order of the wire collections.                        *)
(***************************************************************************)
FirstExecution(i) == \A k \in CallsOf("Again") : i < k
SecondExecution(i) == \E k \in CallsOf("Again") : k < i

\* C27: two executions of dataset columns or dataset metrics Create / Update
\* with the same declared map and the same remote state send the same wire
\* collection: the same items in the same order.
C27_SameWireOrder ==
    handler.res \in {"dataset_columns", "dataset_metrics"} =>
        \A i, j \in CallsOf("UpdateDataset") :
            (FirstExecution(i) /\ SecondExecution(j)) => calls[i].put = calls[j].put


(***************************************************************************)
(* Properties of the handlers after an error has been recorded.            *)
(***************************************************************************)
\* C28: once an error diagnostic has been recorded in an invocation, a
\* failure to decode the prior state included, no remote call is issued
\* afterwards in that invocation.
C28_NoCallAfterError == [][HasError(diags) => calls' = calls]_vars


(***************************************************************************)
(* Properties of Create applied again after a create whose read-back       *)
(* failed.                                                                 *)
(***************************************************************************)
Retrying == handler.op = "Create" /\ handler.res \in {"user", "role", "group"}
RetryLookupOp == FindOp(handler.res)
RetryCreateOp == CreateOp(handler.res)
LastAgain == MaxOf(CallsOf("Again"))
ThisInvocation == {i \in 1..Len(calls) : CallsOf("Again") # {} => i > LastAgain}
\* an earlier invocation's create failed, the service holds the key since
Orphaned ==
    /\ CallsOf("Again") # {}
    /\ calls[LastAgain].held > 0
    /\ \E c \in CallsOf(RetryCreateOp) :
           /\ c < LastAgain /\ calls[c].res = "other"
           /\ \A r \in CallsOf("Removed") : r < c
\* the lookups of this invocation were answered from the collection or failed
LookupNotDenied == \A j \in ThisInvocation : calls[j].op = RetryLookupOp => calls[j].res # "notfound"

====
